---------------------------- MODULE Spec2Model ----------------------------
(***************************************************************************)
(* Model of the Gamebryo savegame parser (gamebryosavegame.cpp/.h,         *)
(* string_cast.h).  The Windows build is modelled: unsigned long and long  *)
(* are 4 bytes wide and string_cast.h takes its _WIN32 branch.             *)
(*                                                                         *)
(* A file is a sequence of bytes (0..255).  Multi-byte integers are kept   *)
(* as little-endian byte sequences of their width, because 32- and 64-bit  *)
(* values do not fit the checker's integers; arithmetic on them is done    *)
(* digit by digit.                                                         *)
(***************************************************************************)
EXTENDS Integers, Sequences, FiniteSets, TLC

VARIABLES
    fileName,   \* the path given by the caller, as UTF-8 (m_FileName)
    file,       \* the bytes of the savegame file on disk
    layout,     \* how `file` was assembled: format and field positions
    openOk,     \* whether std::ifstream can open the file
    statRes,    \* stat(): <<res, st_mtime as 8 little-endian bytes>>
    env,        \* what the build and the host decide: the value an
                \* uninitialised char holds, inflateInit's result, the
                \* shift mktime applies (time zone, stray tm_isdst)
    quick,      \* the `quick` argument of the call
    mode,       \* "sync": constructor;  "async": create() / readAsync
    pc,         \* position of the thread running read()
    idx,        \* dispatcher loop: index of the next magic to probe
    found,      \* dispatcher loop: `found`
    st,         \* FileWrapper (decoder, flags), GamebryoSaveGame fields and
                \* the exception in flight, if any
    tsfn,       \* Napi::ThreadSafeFunction m_ThreadCB
    delivered,  \* the calls made to the completion callback, in order
    raised      \* what the constructor has thrown to its JavaScript caller

vars == <<fileName, file, layout, openOk, statRes, env, quick, mode, pc, idx,
          found, st, tsfn, delivered, raised>>

--------------------------------------------------------------------------
(* Bytes and little-endian integers                                        *)

Byte == 0..255

Max(a, b) == IF a >= b THEN a ELSE b
Min(a, b) == IF a <= b THEN a ELSE b

Zeros(n) == [i \in 1..n |-> 0]

RECURSIVE Flatten(_)
Flatten(ss) == IF Len(ss) = 0 THEN <<>> ELSE Head(ss) \o Flatten(Tail(ss))

Map(Op(_), ss) == [i \in 1..Len(ss) |-> Op(ss[i])]

\* n < 2^31 as `w` little-endian bytes
RECURSIVE LE(_, _)
LE(n, w) == IF w = 0 THEN <<>> ELSE <<n % 256>> \o LE(n \div 256, w - 1)

\* value of a little-endian byte sequence; the caller makes sure it fits
RECURSIVE Val(_)
Val(b) == IF Len(b) = 0 THEN 0 ELSE b[1] + 256 * Val(Tail(b))

\* unsigned comparison  b < n  for a small n, whatever the width of b
ULess(b, n) ==
    /\ \A i \in 3..Len(b) : b[i] = 0
    /\ Val(SubSeq(b, 1, Min(Len(b), 2))) < n

IsZero(b) == \A i \in 1..Len(b) : b[i] = 0

\* a - b modulo 256^Len(a), from digit i on, with an incoming borrow
RECURSIVE SubFrom(_, _, _, _)
SubFrom(a, b, i, borrow) ==
    IF i > Len(a) THEN <<>>
    ELSE LET d == a[i] - b[i] - borrow
         IN  <<d % 256>> \o SubFrom(a, b, i + 1, IF d < 0 THEN 1 ELSE 0)

Sub64(a, b) == SubFrom(a, b, 1, 0)
Neg64(a) == Sub64(Zeros(8), a)

\* the hexadecimal digits of a byte sequence, least significant first
Nibbles(b) ==
    [i \in 1..(2 * Len(b)) |->
        IF i % 2 = 1 THEN b[(i + 1) \div 2] % 16 ELSE b[i \div 2] \div 16]

FromNibbles(nb) ==
    [i \in 1..(Len(nb) \div 2) |-> nb[2 * i - 1] + 16 * nb[2 * i]]

\* long division of the digits nb[1..i] by d, most significant digit first
RECURSIVE DivDigits(_, _, _, _)
DivDigits(nb, d, i, rem) ==
    IF i = 0 THEN <<>>
    ELSE LET cur == rem * 16 + nb[i]
         IN  Append(DivDigits(nb, d, i - 1, cur % d), cur \div d)

\* unsigned quotient  b / d  (d < 2^27), same width as b
UDiv(b, d) == FromNibbles(DivDigits(Nibbles(b), d, 2 * Len(b), 0))

--------------------------------------------------------------------------
(* windowsTicksToEpoch                                                     *)

WINDOWS_TICK == 10000000

\* 11644473600 = 0x2B6109100 as an int64_t
SEC_TO_UNIX_EPOCH == <<0, 145, 16, 182, 2, 0, 0, 0>>

\* the conversion without the shift from 1601 to 1970
windowsTicksToEpochUnshifted(ticks) == SubSeq(UDiv(ticks, WINDOWS_TICK), 1, 4)

\* The argument is int64_t: the uint64_t read from the file is reinterpreted
\* as signed, and signed division truncates toward zero.
windowsTicksToEpoch(ticks) ==
    LET neg  == ticks[8] >= 128
        mag  == IF neg THEN Neg64(ticks) ELSE ticks
        qmag == UDiv(mag, WINDOWS_TICK)
        q    == IF neg THEN Neg64(qmag) ELSE qmag
    IN  SubSeq(Sub64(q, SEC_TO_UNIX_EPOCH), 1, 4)

--------------------------------------------------------------------------
(* Exceptions                                                              *)
(* `st.exc` is the exception in flight.  Every operation below is the      *)
(* identity once an exception is in flight: the C++ code after a throw is  *)
(* not executed.                                                           *)

NoExc == [type |-> "none", what |-> "", offset |-> 0, n |-> 0,
          syscall |-> "", fileName |-> "", code |-> 0]

Throw(s, type, what, offset, n) ==
    [s EXCEPT !.exc = [NoExc EXCEPT !.type = type, !.what = what,
                                    !.offset = offset, !.n = n]]

Thrown(s) == s.exc.type # "none"

--------------------------------------------------------------------------
(* IDecoder: DirectDecoder (std::ifstream) and the two decompressing       *)
(* decoders (std::istringstream).  s.src are the bytes of the active       *)
(* source, s.pos the get position, s.fail the stream's failbit and s.mem   *)
(* tells a string stream from a file stream.  s.val receives what a read   *)
(* stores into the caller's buffer.                                        *)

\* istream::read: with failbit set nothing is extracted; a short read stores
\* the bytes that are left and sets eofbit and failbit.
DecoderRead(s, size) ==
    IF s.fail THEN [s EXCEPT !.val = <<>>]
    ELSE IF size = 0 THEN [s EXCEPT !.val = <<>>]
    ELSE IF s.pos + size <= Len(s.src)
         THEN [s EXCEPT !.val = SubSeq(s.src, s.pos + 1, s.pos + size),
                        !.pos = s.pos + size]
         ELSE [s EXCEPT !.val = SubSeq(s.src, s.pos + 1, Len(s.src)),
                        !.pos = Max(s.pos, Len(s.src)),
                        !.fail = TRUE]

\* istream::seekg: does nothing when failbit is set.  A file stream may be
\* positioned past its end; a string stream may not (failbit).
DecoderSeekTo(s, offset) ==
    IF s.fail THEN s
    ELSE IF s.mem /\ offset > Len(s.src) THEN [s EXCEPT !.fail = TRUE]
    ELSE [s EXCEPT !.pos = offset]

DecoderSeek(s, offset)    == DecoderSeekTo(s, offset)           \* std::ios::beg
DecoderSeekCur(s, offset) == DecoderSeekTo(s, s.pos + offset)   \* std::ios::cur
DecoderSeekEnd(s)         == DecoderSeekTo(s, Len(s.src))       \* seek(0, end)

DecoderClear(s) == [s EXCEPT !.fail = FALSE]

\* istream::tellg: pos_type(-1) when failbit is set
DecoderTell(s) == IF s.fail THEN -1 ELSE s.pos

--------------------------------------------------------------------------
(* FileWrapper: the framed reader                                          *)

FieldMarker == 124      \* '|'

\* the check throwing without asking the decoder where it is
sanityCheckUntagged(s, conditionMatch, message) ==
    IF Thrown(s) \/ conditionMatch THEN s
    ELSE Throw(s, "DataInvalid", message, 0, 0)

sanityCheck(s, conditionMatch, message) ==
    IF Thrown(s) \/ conditionMatch THEN s
    ELSE Throw(s, "DataInvalid", message, DecoderTell(s), 0)

\* the failure reported without clear(): the seek and tell() then act on a
\* stream whose failbit is set
EndOfFileNotCleared(s, what, n) ==
    LET e == DecoderSeekEnd(s)
    IN  Throw(e, "runtime_error", what, DecoderTell(e), n)

\* the common tail of skip, read<T> and read(void*, size_t) on failure
EndOfFile(s, what, n) ==
    LET e == DecoderSeekEnd(DecoderClear(s))
    IN  Throw(e, "runtime_error", what, DecoderTell(e), n)

\* skip<T>(count), bytes = count * sizeof(T)
skip(s, bytes) ==
    IF Thrown(s) THEN s
    ELSE LET s1 == DecoderSeekCur(s, bytes)
         IN  IF s1.fail THEN EndOfFile(s1, "unexpected end of file (skip)", bytes)
             ELSE s1

\* the byte a one-byte read leaves in an uninitialised char
MarkerByte(s1) == IF s1.fail THEN env.uninit ELSE s1.val[1]

\* m_Decoder->read(&marker, 1); sanityCheck(marker == '|', ...)
\* keeping the value read before it
readMarker(s) ==
    LET s1 == DecoderRead(s, 1)
        s2 == [s1 EXCEPT !.val = s.val]
    IN  sanityCheck(s2, MarkerByte(s1) = FieldMarker, "Expected field separator")

\* read<T> stepping over the field marker without looking at it
readSkippingMarker(s, size) ==
    IF Thrown(s) THEN s
    ELSE LET s1 == DecoderRead(s, size)
         IN  IF s1.fail THEN EndOfFile(s1, "unexpected end of file (read)", size)
             ELSE IF s1.hfm THEN [skip(s1, 1) EXCEPT !.val = s1.val]
             ELSE s1

\* read<T>(value), size = sizeof(T); the value is left in .val
read(s, size) ==
    IF Thrown(s) THEN s
    ELSE LET s1 == DecoderRead(s, size)
         IN  IF s1.fail THEN EndOfFile(s1, "unexpected end of file (read)", size)
             ELSE IF s1.hfm THEN readMarker(s1)
             ELSE s1

\* read(void *buff, std::size_t length)
readBuffer(s, length) ==
    IF Thrown(s) THEN s
    ELSE LET s1 == DecoderRead(s, length)
         IN  IF s1.fail THEN EndOfFile(s1, "unexpected end of file (read)", length)
             ELSE s1

--------------------------------------------------------------------------
(* string_cast.h, _WIN32 branch, on ASCII text.  Both conversions are      *)
(* given an explicit length, convert that many characters (a std::string   *)
(* buffer is followed by NULs) and then drop the trailing NULs of the      *)
(* result.  For ASCII the code points are the byte values under every      *)
(* code page used here; s.ascii records that nothing else was converted.   *)

Take(source, n) ==
    [i \in 1..n |-> IF i <= Len(source) THEN source[i] ELSE 0]

DropTrailingNul(b) ==
    LET nz == {i \in 1..Len(b) : b[i] # 0}
    IN  IF nz = {} THEN <<>>
        ELSE SubSeq(b, 1, CHOOSE m \in nz : \A j \in nz : j <= m)

toWC(source, sourceLength) ==
    IF sourceLength > 0 THEN DropTrailingNul(Take(source, sourceLength)) ELSE <<>>

toMB(source, sourceLength) ==
    IF sourceLength > 0 THEN DropTrailingNul(Take(source, sourceLength)) ELSE <<>>

IsAscii(b) == \A i \in 1..Len(b) : b[i] < 128

\* the string read asking for a field marker after an empty string too
readStringMarkerAlways(s) ==
    IF Thrown(s) THEN s
    ELSE
    LET s1     == read(s, IF s.bz THEN 1 ELSE 2)
        length == Val(s1.val)
        s2     == readBuffer(s1, length)
        buffer == IF s.bz THEN SubSeq(s2.val, 1, length - 1) ELSE s2.val
        s3     == IF s.hfm THEN readMarker(s2) ELSE s2
    IN  IF Thrown(s1) THEN s1
        ELSE IF Thrown(s2) THEN s2
        ELSE IF Thrown(s3) THEN s3
        ELSE [s3 EXCEPT !.val = toMB(toWC(buffer, length), length),
                        !.ascii = s.ascii /\ IsAscii(buffer)]

\* template <> read(std::string &value)
readString(s) ==
    IF Thrown(s) THEN s
    ELSE
    LET s1     == read(s, IF s.bz THEN 1 ELSE 2)
        length == Val(s1.val)
        s2     == readBuffer(s1, length)
        buffer == IF s.bz THEN SubSeq(s2.val, 1, length - 1) ELSE s2.val
        s3     == IF s.hfm THEN readMarker(s2) ELSE s2
    IN  IF Thrown(s1) THEN s1
        ELSE IF length = 0 THEN [s1 EXCEPT !.val = <<>>]
        ELSE IF Thrown(s2) THEN s2
        ELSE IF Thrown(s3) THEN s3
        ELSE [s3 EXCEPT !.val = toMB(toWC(buffer, length), length),
                        !.ascii = s.ascii /\ IsAscii(buffer)]

readBString(s) ==
    LET s1 == read(s, 1)
    IN  readBuffer(s1, Val(s1.val))

--------------------------------------------------------------------------
(* Image decoder                                                           *)

MaxDimension == 2000

\* the pixels as they are in the file, no alpha channel added
KeepRGB(buffer, pixels) == buffer

\* the loop writing 0xFF before every RGB triplet
ExpandARGB(buffer, pixels) ==
    [i \in 1..(4 * pixels) |->
        IF i % 4 = 1 THEN 255 ELSE buffer[3 * ((i - 1) \div 4) + ((i - 1) % 4)]]

\* the "scary" loop: every RGB triplet is copied and 0xFF appended
ExpandRGB(buffer, pixels) ==
    [i \in 1..(4 * pixels) |->
        IF i % 4 = 0 THEN 255 ELSE buffer[3 * ((i - 1) \div 4) + ((i - 1) % 4) + 1]]

\* readImage(unsigned long width, unsigned long height, bool alpha)
readImage(s, width, height, alpha) ==
    LET s0    == [s EXCEPT !.imageReads = @ + 1]
        s1    == sanityCheck(s0, ULess(width, MaxDimension), "invalid width")
        s2    == sanityCheck(s1, ULess(height, MaxDimension), "invalid height")
        w     == Val(width)
        h     == Val(height)
        bytes == w * h * (IF alpha THEN 4 ELSE 3)
        s3    == [s2 EXCEPT !.m_ScreenshotDim = <<w, h>>]
        s4    == readBuffer(s3, bytes)
    IN  IF Thrown(s) THEN s
        ELSE IF Thrown(s2) THEN s2
        ELSE IF Thrown(s4) THEN s4
        ELSE [s4 EXCEPT !.m_Screenshot =
                            IF alpha THEN s4.val ELSE ExpandRGB(s4.val, w * h)]

\* readImage(bool alpha): the dimensions precede the pixels
readImageDims(s, alpha) ==
    LET s1 == read(s, 4)
        s2 == read(s1, 4)
    IN  IF Thrown(s2) THEN s2 ELSE readImage(s2, s1.val, s2.val, alpha)

--------------------------------------------------------------------------
(* Plugin lists                                                            *)

MaxPluginName == 256

\* sanityCheck(name.length() <= 256, ...); m_Plugins.push_back(name)
pushPlugin(s, message) ==
    LET s1 == sanityCheck(s, Len(s.val) <= MaxPluginName, message)
    IN  IF Thrown(s1) THEN s1 ELSE [s1 EXCEPT !.m_Plugins = Append(@, s.val)]

\* one iteration of the loop over the plugin names
readPlugin(s, bStrings, message) ==
    pushPlugin(IF bStrings THEN readBString(s) ELSE readString(s), message)

\* the iterations i .. count - 1 of the loop, in order and up to the first
\* that throws; taken by halves, which keeps the evaluation shallow
RECURSIVE PluginLoop(_, _, _, _, _)
PluginLoop(s, i, count, bStrings, message) ==
    IF Thrown(s) \/ i >= count THEN s
    ELSE IF count = i + 1 THEN readPlugin(s, bStrings, message)
    ELSE LET mid == i + (count - i) \div 2
         IN  PluginLoop(PluginLoop(s, i, mid, bStrings, message),
                        mid, count, bStrings, message)

readPlugins(s, bStrings) ==
    LET s1 == read(s, 1)
    IN  IF Thrown(s1) THEN s1
        ELSE PluginLoop(s1, 0, Val(s1.val), bStrings, "Invalid plugin name")

readLightPlugins(s) ==
    LET s1 == read(s, 2)
    IN  IF Thrown(s1) THEN s1
        ELSE PluginLoop(s1, 0, Val(s1.val), FALSE, "Invalid light plugin name")

--------------------------------------------------------------------------
(* The decompression libraries.  Streams outside the subset modelled here  *)
(* (LZ4 blocks with matches, Huffman-coded deflate blocks) set `known` to  *)
(* FALSE.  `ok` is the library's verdict, `out` what it has written into   *)
(* the zero-filled destination of `cap` bytes.                             *)

\* the 255-continued length that follows a nibble of 15, starting at p:
\* <<length, position after it>>; a length running into the end of the
\* input gives <<-1, p>>
RECURSIVE LZ4Length(_, _, _)
LZ4Length(comp, p, acc) ==
    IF p > Len(comp) THEN <<-1, p>>
    ELSE IF comp[p] = 255 THEN LZ4Length(comp, p + 1, acc + 255)
    ELSE <<acc + comp[p], p + 1>>

\* LZ4_decompress_safe on a block that is one run of literals: the run must
\* end exactly at the end of the input and fit the destination, otherwise
\* the function returns an error before copying anything.
LZ4_decompress_safe(comp, cap) ==
    IF Len(comp) = 0 THEN [ok |-> FALSE, known |-> TRUE, out |-> Zeros(cap)]
    ELSE
    LET lit == IF comp[1] \div 16 = 15 THEN LZ4Length(comp, 2, 15)
               ELSE <<comp[1] \div 16, 2>>
        n   == lit[1]
        p   == lit[2]
    IN  IF n < 0 \/ p - 1 + n > Len(comp) \/ (p - 1 + n = Len(comp) /\ n > cap)
        THEN [ok |-> FALSE, known |-> TRUE, out |-> Zeros(cap)]
        ELSE IF p - 1 + n < Len(comp)
        THEN [ok |-> FALSE, known |-> FALSE, out |-> Zeros(cap)]
        ELSE [ok |-> TRUE, known |-> TRUE,
              out |-> Take(SubSeq(comp, p, p - 1 + n), cap)]

AdlerBase == 65536 - 15

RECURSIVE AdlerA(_, _)
AdlerA(data, i) ==
    IF i = 0 THEN 1 ELSE (AdlerA(data, i - 1) + data[i]) % AdlerBase

RECURSIVE AdlerB(_, _)
AdlerB(data, i) ==
    IF i = 0 THEN 0 ELSE (AdlerB(data, i - 1) + AdlerA(data, i)) % AdlerBase

\* the four bytes, most significant first, that end a zlib stream
Adler32(data) ==
    LET a == AdlerA(data, Len(data))
        b == AdlerB(data, Len(data))
    IN  <<b \div 256, b % 256, a \div 256, a % 256>>

\* the deflate blocks from position p on, `out` being what is written so far
RECURSIVE InflateBlocks(_, _, _, _)
InflateBlocks(comp, p, out, cap) ==
    IF p > Len(comp) THEN [ok |-> FALSE, known |-> TRUE, out |-> out]
    ELSE
    LET final == comp[p] % 2 = 1
        btype == (comp[p] \div 2) % 4
        len   == comp[p + 1] + 256 * comp[p + 2]
        nlen  == comp[p + 3] + 256 * comp[p + 4]
        avail == Min(Min(len, Len(comp) - (p + 4)), cap - Len(out))
        out2  == out \o SubSeq(comp, p + 5, p + 4 + avail)
        q     == p + 5 + len
    IN  IF btype = 3 THEN [ok |-> FALSE, known |-> TRUE, out |-> out]
        ELSE IF btype # 0 THEN [ok |-> FALSE, known |-> FALSE, out |-> out]
        ELSE IF p + 4 > Len(comp) THEN [ok |-> FALSE, known |-> TRUE, out |-> out]
        ELSE IF len + nlen # 65535 THEN [ok |-> FALSE, known |-> TRUE, out |-> out]
        ELSE IF avail < len THEN [ok |-> FALSE, known |-> TRUE, out |-> out2]
        ELSE IF ~final THEN InflateBlocks(comp, q, out2, cap)
        ELSE [ok    |-> /\ q + 3 <= Len(comp)
                        /\ SubSeq(comp, q, q + 3) = Adler32(out2),
              known |-> TRUE,
              out   |-> out2]

\* inflateInit; inflate(Z_NO_FLUSH); inflateEnd on a zlib stream
inflate(comp, cap) ==
    LET hdrOk == /\ Len(comp) >= 2
                 /\ comp[1] % 16 = 8
                 /\ comp[1] \div 16 <= 7
                 /\ (comp[1] * 256 + comp[2]) % 31 = 0
                 /\ (comp[2] \div 32) % 2 = 0
        r     == InflateBlocks(comp, 3, <<>>, cap)
    IN  IF hdrOk THEN [r EXCEPT !.out = Take(r.out, cap)]
        ELSE [ok |-> FALSE, known |-> TRUE, out |-> Zeros(cap)]

\* sizes the model allocates; larger requests end in std::bad_alloc
MaxAlloc == 1048576

Allocatable(size) == size[4] = 0 /\ Val(SubSeq(size, 1, 3)) <= MaxAlloc

\* a decoder that goes on at the get position of the source it wraps
NewDecoderKeepingPosition(s, format, compressedSize, uncompressedSize) ==
    LET s1   == DecoderRead(s, compressedSize)
        comp == Take(s1.val, compressedSize)
        dec  == IF format = 1 THEN inflate(comp, uncompressedSize)
                ELSE LZ4_decompress_safe(comp, uncompressedSize)
    IN  [s1 EXCEPT !.src = dec.out, !.fail = FALSE, !.mem = TRUE,
                   !.val = <<>>,
                   !.decoders = Append(@, [format   |-> format,
                                           readOk   |-> ~s1.fail,
                                           inflated |-> dec.ok,
                                           outerEnd |-> s1.pos,
                                           outerLen |-> Len(s.src)]),
                   !.known = @ /\ dec.known]

\* ZlibDecoder::ZlibDecoder / LZ4Decoder::LZ4Decoder: the return values of
\* wrapee->read, inflate and LZ4_decompress_safe are not looked at.
NewDecoder(s, format, compressedSize, uncompressedSize) ==
    LET s1   == DecoderRead(s, compressedSize)
        comp == Take(s1.val, compressedSize)
        dec  == IF format = 1 THEN inflate(comp, uncompressedSize)
                ELSE LZ4_decompress_safe(comp, uncompressedSize)
    IN  [s1 EXCEPT !.src = dec.out, !.pos = 0, !.fail = FALSE, !.mem = TRUE,
                   !.val = <<>>,
                   !.decoders = Append(@, [format   |-> format,
                                           readOk   |-> ~s1.fail,
                                           inflated |-> dec.ok,
                                           outerEnd |-> s1.pos,
                                           outerLen |-> Len(s.src)]),
                   !.known = @ /\ dec.known]

\* every format but 1 taken for LZ4
setCompressionElseLZ4(s, format, compressedSize, uncompressedSize) ==
    IF Thrown(s) THEN s
    ELSE IF ~Allocatable(compressedSize) \/ ~Allocatable(uncompressedSize)
    THEN Throw([s EXCEPT !.known = FALSE], "bad_alloc", "bad allocation", 0, 0)
    ELSE IF Val(format) = 1 /\ ~env.inflateInitOk
    THEN Throw(DecoderRead(s, Val(compressedSize)), "runtime_error",
               "failed to initialize zlib inflate", 0, 0)
    ELSE NewDecoder(s, IF Val(format) = 1 THEN 1 ELSE 2,
                    Val(compressedSize), Val(uncompressedSize))

\* setCompression(format, compressedSize, uncompressedSize)
setCompression(s, format, compressedSize, uncompressedSize) ==
    IF Thrown(s) THEN s
    ELSE IF Val(format) \notin {1, 2} THEN s
    ELSE IF ~Allocatable(compressedSize) \/ ~Allocatable(uncompressedSize)
    THEN Throw([s EXCEPT !.known = FALSE], "bad_alloc", "bad allocation", 0, 0)
    ELSE IF Val(format) = 1 /\ ~env.inflateInitOk
    THEN Throw(DecoderRead(s, Val(compressedSize)), "runtime_error",
               "failed to initialize zlib inflate", 0, 0)
    ELSE NewDecoder(s, Val(format), Val(compressedSize), Val(uncompressedSize))

--------------------------------------------------------------------------
(* Oblivion: play time from a float, creation time from a WINSYSTEMTIME    *)

Pow2(n) == IF n <= 0 THEN 1 ELSE 2 ^ n

\* std::to_string(int) as ASCII
RECURSIVE Digits(_)
Digits(n) == IF n < 10 THEN <<48 + n>> ELSE Append(Digits(n \div 10), 48 + (n % 10))

to_string(n) == IF n < 0 THEN <<45>> \o Digits(-n) ELSE Digits(n)

\* m * 2^e truncated toward zero, for m < 2^25; -1 when it is not an int
TruncScaled(m, e) ==
    IF e >= 7 THEN -1
    ELSE IF e >= 0 THEN m * Pow2(e)
    ELSE IF e <= -31 THEN 0
    ELSE m \div Pow2(-e)

\* whether m * 2^e has a fractional part
HasFraction(m, e) == e < 0 /\ (e <= -31 \/ m % Pow2(-e) # 0)

\* m / 2^k rounded to nearest, ties to even
RoundShift(m, k) ==
    LET q == m \div Pow2(k)
        r == m % Pow2(k)
        h == Pow2(k - 1)
    IN  IF r > h \/ (r = h /\ q % 2 = 1) THEN q + 1 ELSE q

\* a float as [neg, m, e, finite]: value (-1)^neg * m * 2^e
Float(b) ==
    LET biased == (b[4] % 128) * 2 + b[3] \div 128
        frac   == (b[3] % 128) * 65536 + b[2] * 256 + b[1]
    IN  [neg    |-> b[4] >= 128,
         m      |-> IF biased = 0 THEN frac ELSE 8388608 + frac,
         e      |-> IF biased = 0 THEN -149 ELSE biased - 150,
         finite |-> biased # 255]

\* static_cast<int>(floor(gameDays))
FloorDays(f) ==
    LET t == TruncScaled(f.m, f.e)
    IN  IF ~f.neg THEN t
        ELSE IF HasFraction(f.m, f.e) THEN -(t + 1) ELSE -t

\* static_cast<int>(gameDays * 24) % 24: the product is a float again,
\* (m * 3) * 2^(e + 3) rounded to 24 bits; % keeps the sign of the dividend
HoursOfDay(f) ==
    LET m3 == f.m * 3
        k  == IF m3 >= 33554432 THEN 2 ELSE IF m3 >= 16777216 THEN 1 ELSE 0
        t  == TruncScaled(RoundShift(m3, k), f.e + 3 + k)
    IN  IF f.neg THEN -(t % 24) ELSE t % 24

\* the casts to int are defined only for values an int can hold
IntRange(f) ==
    /\ f.finite
    /\ TruncScaled(f.m, f.e) >= 0
    /\ TruncScaled(RoundShift(f.m * 3, 2), f.e + 5) >= 0

Playtime(gameDays) ==
    LET f == Float(gameDays)
    IN  IF IntRange(f)
        THEN to_string(FloorDays(f)) \o <<32, 100, 97, 121, 115, 44, 32>>
             \o to_string(HoursOfDay(f)) \o <<32, 104, 111, 117, 114, 115>>
        ELSE <<>>

\* days from 1970-01-01 to the first of month `mon` (1..12) of year y
DaysFromCivil(y, mon) ==
    LET yy  == IF mon <= 2 THEN y - 1 ELSE y
        era == yy \div 400
        yoe == yy - era * 400
        mp  == (mon + 9) % 12
        doy == (153 * mp + 2) \div 5
        doe == yoe * 365 + yoe \div 4 - yoe \div 100 + doy
    IN  era * 146097 + doe - 719468

MaxDays == 24000        \* mktime results the model computes: before 2035-09

\* mktime of the tm built from winTime, as a uint32_t.  The tm is taken as
\* local time; tm_isdst is never set.  Both are env.mktimeShift here.
\* mktime gives -1 for what it cannot represent.
mktime(winTime) ==
    LET f(i)  == winTime[2 * i - 1] + 256 * winTime[2 * i]
        mon0  == f(2) - 1
        y     == f(1) + mon0 \div 12
        days  == DaysFromCivil(y, (mon0 % 12) + 1) + f(4) - 1
        secs  == days * 86400 + f(5) * 3600 + f(6) * 60 + f(7) + env.mktimeShift
    IN  IF days < -1 \/ days > MaxDays THEN <<255, 255, 255, 255>>
        ELSE IF secs < 0 THEN <<255, 255, 255, 255>>
        ELSE LE(secs, 4)

MktimeKnown(winTime) ==
    LET f(i)  == winTime[2 * i - 1] + 256 * winTime[2 * i]
    IN  DaysFromCivil(f(1) + (f(2) - 1) \div 12, ((f(2) - 1) % 12) + 1) + f(4) - 1
            <= MaxDays

--------------------------------------------------------------------------
(* The four format parsers.  A parser is the list of its statements in     *)
(* the order of the code; Run executes them on the reader.  A statement    *)
(* is [op, n, to, as, when]: the operation, the size in bytes of what it   *)
(* reads or skips, the member or local that receives the value, the        *)
(* conversion applied to it, and the condition of the `if` around it.      *)
(* Every `if (!m_QuickRead)` block extends to the end of its function, so  *)
(* a parser returns at its Quick statement when m_QuickRead is set.        *)

Enter(s, parser) == [s EXCEPT !.calls = Append(@, parser)]

\* a conversion that saturates at 65535
Saturated16(b) ==
    IF \E i \in 3..Len(b) : b[i] # 0 THEN 65535 ELSE b[1] + 256 * b[2]

\* static_cast<unsigned short> of a wider little-endian value
Low16(b) == b[1] + 256 * b[2]

Statement(op, n, to, as) == [op |-> op, n |-> n, to |-> to, as |-> as, when |-> "always"]

Skip(n)         == Statement("skip", n, "", "")
Read(n, to)     == Statement("read", n, to, "value")
ReadAs(n, to, as) == Statement("read", n, to, as)
String(to)      == Statement("string", 0, to, "value")
Quick           == Statement("quick", 0, "", "")
When(cond, st0) == [st0 EXCEPT !.when = cond]

\* the value just read is stored in a member or local, as it is or converted
assign(s, to, as) ==
    IF Thrown(s) \/ to = "" THEN s
    ELSE CASE as = "value"    -> [s EXCEPT ![to] = s.val]
           [] as = "ushort"   -> [s EXCEPT ![to] = Low16(s.val)]
           [] as = "gameDays" -> [s EXCEPT ![to] = Playtime(s.val),
                                           !.known = @ /\ IntRange(Float(s.val))]
           [] as = "winTime"  -> [s EXCEPT ![to] = mktime(s.val),
                                           !.known = @ /\ MktimeKnown(s.val)]
           [] as = "ftime"    -> [s EXCEPT ![to] = windowsTicksToEpoch(s.val)]

\* for (unsigned char ignore = 0; ignore != 0x7c; ++fieldSize) file.read(ignore);
\* gives <<reader, fieldSize>>.  The reader has no field markers yet (only
\* readFO3 turns them on, after this loop), so the loop ends at the first
\* '|' from the get position on, or in the read that finds the end of the
\* source.
FO3Scan(s, fieldSize) ==
    LET hits == {k \in (s.pos + 1)..Len(s.src) : s.src[k] = FieldMarker}
        k    == CHOOSE m \in hits : \A j \in hits : m <= j
        last == [s EXCEPT !.pos = Max(s.pos, Len(s.src))]
    IN  IF Thrown(s) THEN <<s, fieldSize>>
        ELSE IF s.fail \/ hits = {}
        THEN <<read(last, 1), fieldSize + Max(0, Len(s.src) - s.pos)>>
        ELSE <<[s EXCEPT !.pos = k, !.val = <<FieldMarker>>], fieldSize + (k - s.pos)>>

FO3FieldSize == 5

\* the scan never followed by the seek back to where it began
skipNVFieldNoSeek(s) == FO3Scan(s, 0)[1]

\* the field New Vegas has and Fallout 3 has not: the reader is moved back
\* if the bytes up to the first '|' are the four of the width
skipNVField(s) ==
    LET sc == FO3Scan(s, 0)
    IN  IF ~Thrown(sc[1]) /\ sc[2] = FO3FieldSize
        THEN DecoderSeek(sc[1], DecoderTell(s)) ELSE sc[1]

setHasFieldMarkers(s, state) == IF Thrown(s) THEN s ELSE [s EXCEPT !.hfm = state]

setBZString(s, state) == [s EXCEPT !.bz = state]

SkyrimSEVersion == 12       \* 0x0c
SkyrimLightVersion == 78    \* 0x4e
FO4LightVersion == 68       \* 0x44

\* the conditions with the light plugins read only above the two versions
HoldsAbove(s, cond) ==
    CASE cond = "always"         -> TRUE
      [] cond = "version < 0x0c" -> ULess(s.version, SkyrimSEVersion)
      [] cond = "Skyrim SE"      -> ~ULess(s.version, SkyrimSEVersion)
      [] cond = "formVersion >= 0x4e" -> s.formVersion[1] > SkyrimLightVersion
      [] cond = "formVersion >= 0x44" -> s.formVersion[1] > FO4LightVersion

\* the conditions of the `if` statements inside the parsers
Holds(s, cond) ==
    CASE cond = "always"         -> TRUE
      [] cond = "version < 0x0c" -> ULess(s.version, SkyrimSEVersion)
      [] cond = "Skyrim SE"      -> ~ULess(s.version, SkyrimSEVersion)
      [] cond = "formVersion >= 0x4e" -> s.formVersion[1] >= SkyrimLightVersion
      [] cond = "formVersion >= 0x44" -> s.formVersion[1] >= FO4LightVersion

\* one statement of a parser
Do(s, st0) ==
    IF Thrown(s) \/ ~Holds(s, st0.when) THEN s
    ELSE CASE st0.op = "skip"             -> skip(s, st0.n)
           [] st0.op = "read"             -> assign(read(s, st0.n), st0.to, st0.as)
           [] st0.op = "string"           -> assign(readString(s), st0.to, st0.as)
           [] st0.op = "setBZString"      -> setBZString(s, TRUE)
           [] st0.op = "skipNVField"      -> skipNVField(s)
           [] st0.op = "setHasFieldMarkers" -> setHasFieldMarkers(s, TRUE)
           [] st0.op = "readImage()"      -> readImageDims(s, st0.as = "alpha")
           [] st0.op = "readImage(w, h)"  ->
                  readImage(s, s.width, s.height, st0.as = "alpha")
           [] st0.op = "setCompression"   ->
                  setCompression(s, s.compressionFormat, s.compressed, s.uncompressed)
           [] st0.op = "readPlugins"      -> readPlugins(s, st0.as = "bStrings")
           [] st0.op = "readLightPlugins" -> readLightPlugins(s)
           [] st0.op = "quick"            -> s

\* the statements run with no regard to m_QuickRead
RECURSIVE RunAll(_, _, _)
RunAll(s, statements, i) ==
    IF Thrown(s) \/ i > Len(statements) THEN s
    ELSE RunAll(Do(s, statements[i]), statements, i + 1)

RECURSIVE Run(_, _, _)
Run(s, statements, i) ==
    IF Thrown(s) \/ i > Len(statements) THEN s
    ELSE IF statements[i].op = "quick" /\ s.m_QuickRead THEN s
    ELSE Run(Do(s, statements[i]), statements, i + 1)

\* readOblivion returning in quick mode before it has read winTime
OblivionStatementsQuickEarly ==
    << Statement("setBZString", 0, "", ""),
       Skip(1), Skip(1), Skip(16), Skip(4), Skip(4),
       Read(4, "m_SaveNumber"),
       String("m_PCName"),
       ReadAs(2, "m_PCLevel", "ushort"),
       String("m_PCLocation"),
       ReadAs(4, "m_Playtime", "gameDays"),
       Quick,
       Skip(4),
       ReadAs(16, "m_CreationTime", "winTime"),
       Skip(4),
       Statement("readImage()", 0, "", ""),
       Statement("readPlugins", 0, "", "bStrings") >>

OblivionStatements ==
    << Statement("setBZString", 0, "", ""),
       Skip(1),                                 \* major version
       Skip(1),                                 \* minor version
       Skip(16),                                \* exe last modified
       Skip(4),                                 \* header version
       Skip(4),                                 \* header size
       Read(4, "m_SaveNumber"),
       String("m_PCName"),
       ReadAs(2, "m_PCLevel", "ushort"),
       String("m_PCLocation"),
       ReadAs(4, "m_Playtime", "gameDays"),
       Skip(4),                                 \* game ticks
       ReadAs(16, "m_CreationTime", "winTime"),
       Quick,
       Skip(4),                                 \* screenshot size
       Statement("readImage()", 0, "", ""),
       Statement("readPlugins", 0, "", "bStrings") >>

readOblivion(file0) == Run(Enter(file0, "readOblivion"), OblivionStatements, 1)

SkyrimStatements ==
    << Skip(4),                                 \* header size
       Read(4, "version"),
       Read(4, "m_SaveNumber"),
       String("m_PCName"),
       ReadAs(4, "m_PCLevel", "ushort"),        \* temp
       String("m_PCLocation"),
       String("m_Playtime"),
       String(""),                              \* race
       Skip(2),                                 \* gender
       Skip(8),                                 \* experience
       ReadAs(8, "m_CreationTime", "ftime"),
       Quick,
       When("version < 0x0c", Statement("readImage()", 0, "", "")),
       When("Skyrim SE", Read(4, "width")),
       When("Skyrim SE", Read(4, "height")),
       When("Skyrim SE", Read(2, "compressionFormat")),
       When("Skyrim SE", Statement("readImage(w, h)", 0, "", "alpha")),
       When("Skyrim SE", Read(4, "uncompressed")),
       When("Skyrim SE", Read(4, "compressed")),
       When("Skyrim SE", Statement("setCompression", 0, "", "")),
       Read(1, "formVersion"),
       Skip(4),                                 \* plugin info size
       Statement("readPlugins", 0, "", ""),
       When("formVersion >= 0x4e", Statement("readLightPlugins", 0, "", "")) >>

readSkyrim(file0) == Run(Enter(file0, "readSkyrim"), SkyrimStatements, 1)

FO3Statements ==
    << Skip(4),                                 \* header size
       Skip(4),                                 \* file version
       Skip(1),                                 \* delimiter
       Statement("skipNVField", 0, "", ""),
       Statement("setHasFieldMarkers", 0, "", ""),
       Read(4, "width"),
       Read(4, "height"),
       Read(4, "m_SaveNumber"),
       String("m_PCName"),
       String(""),                              \* unknown
       ReadAs(4, "m_PCLevel", "ushort"),        \* level
       String("m_PCLocation"),
       String("m_Playtime"),
       Quick,
       Statement("readImage(w, h)", 0, "", ""),
       Skip(5),                                 \* unknown byte, size of plugin data
       Statement("readPlugins", 0, "", "") >>

readFO3(file0) == Run(Enter(file0, "readFO3"), FO3Statements, 1)

FO4Statements ==
    << Skip(4),                                 \* header size
       Skip(4),                                 \* header version
       Read(4, "m_SaveNumber"),
       String("m_PCName"),
       ReadAs(4, "m_PCLevel", "ushort"),        \* temp
       String("m_PCLocation"),
       String("m_Playtime"),
       String(""),                              \* race
       Skip(2),                                 \* gender
       Skip(8),                                 \* experience
       ReadAs(8, "m_CreationTime", "ftime"),
       Quick,
       Statement("readImage()", 0, "", "alpha"),
       Read(1, "formVersion"),
       String(""),                              \* game version
       Skip(4),                                 \* plugin info size
       Statement("readPlugins", 0, "", ""),
       When("formVersion >= 0x44", Statement("readLightPlugins", 0, "", "")) >>

readFO4(file0) == Run(Enter(file0, "readFO4"), FO4Statements, 1)

--------------------------------------------------------------------------
(* determineEncoding, _WIN32 branch.  m_FileName is the UTF-8 text of the  *)
(* JavaScript string; toWC turns it into UTF-16 code units (wchar_t).      *)

\* the bytes of a code point in UTF-8
Utf8(cp) ==
    IF cp < 128 THEN <<cp>>
    ELSE IF cp < 2048 THEN <<192 + (cp \div 64), 128 + (cp % 64)>>
    ELSE IF cp < 65536
    THEN <<224 + (cp \div 4096), 128 + ((cp \div 64) % 64), 128 + (cp % 64)>>
    ELSE <<240 + (cp \div 262144), 128 + ((cp \div 4096) % 64),
           128 + ((cp \div 64) % 64), 128 + (cp % 64)>>

\* the number of bytes a lead byte announces; a byte that cannot lead is
\* taken alone
Utf8Width(c) ==
    IF c \in 192..223 THEN 2 ELSE IF c \in 224..239 THEN 3
    ELSE IF c \in 240..247 THEN 4 ELSE 1

\* the code point of the n bytes at i; U+FFFD for a byte that cannot lead
Utf8Value(b, i, n) ==
    CASE n = 1 -> IF b[i] < 128 THEN b[i] ELSE 65533
      [] n = 2 -> (b[i] - 192) * 64 + (b[i + 1] - 128)
      [] n = 3 -> (b[i] - 224) * 4096 + (b[i + 1] - 128) * 64 + (b[i + 2] - 128)
      [] n = 4 -> (b[i] - 240) * 262144 + (b[i + 1] - 128) * 4096
                    + (b[i + 2] - 128) * 64 + (b[i + 3] - 128)

\* the code points of UTF-8 text from byte i on; a sequence cut short by
\* the end of the text gives U+FFFD
RECURSIVE Utf8Decode(_, _)
Utf8Decode(b, i) ==
    IF i > Len(b) THEN <<>>
    ELSE IF i + Utf8Width(b[i]) - 1 > Len(b) THEN <<65533>>
    ELSE <<Utf8Value(b, i, Utf8Width(b[i]))>> \o Utf8Decode(b, i + Utf8Width(b[i]))

\* wchar_t is 16 bits wide: a code point above U+FFFF is a surrogate pair
Utf16(cp) ==
    IF cp < 65536 THEN <<cp>>
    ELSE <<55296 + ((cp - 65536) \div 1024), 56320 + ((cp - 65536) % 1024)>>

\* MultiByteToWideChar(CP_UTF8, 0, source, cbMultiByte, ...)
MultiByteToWideChar(source, cbMultiByte) ==
    Flatten(Map(Utf16, Utf8Decode(Take(source, cbMultiByte), 1)))

\* toWC(source, CodePage::UTF8, sourceLength); sourceLength is a size_t, a
\* negative number here stands for the value it wraps to.  The largest
\* size_t (-1) stands for strlen(source); the file names read here have no
\* fewer than three bytes after the last separator, so nothing below -1
\* is passed.
toWCUtf8(source, sourceLength) ==
    IF sourceLength = 0 THEN <<>>
    ELSE DropTrailingNul(MultiByteToWideChar(source,
             IF sourceLength < 0 THEN Len(source) ELSE sourceLength))

isCharInRange(ch, low, high) == ch >= low /\ ch <= high

\* 0x400 .. 0x52F
isCharCyrillic(ch) == isCharInRange(ch, 1024, 1327)

\* '0' .. '9', '-', '.', ' '
ignoreChar(ch) == isCharInRange(ch, 48, 57) \/ ch = 45 \/ ch = 46 \/ ch = 32

\* fileName.find_last_of("/\\"), then past it
NameOffset(fileName0) ==
    LET seps == {i \in 1..Len(fileName0) : fileName0[i] \in {47, 92}}
    IN  IF seps = {} THEN 0 ELSE (CHOOSE m \in seps : \A j \in seps : j <= m)

relevant(ch) == ~ignoreChar(ch)

\* (cyrillicChars * 100) / relevantChars.length() > 50, in integers
MostlyCyrillic(relevantChars) ==
    /\ Len(relevantChars) > 0
    /\ (Len(SelectSeq(relevantChars, isCharCyrillic)) * 100) \div Len(relevantChars) > 50

\* the test made on the exact ratio
MostlyCyrillicExact(relevantChars) ==
    /\ Len(relevantChars) > 0
    /\ Len(SelectSeq(relevantChars, isCharCyrillic)) * 2 > Len(relevantChars)

FileNameW(fileName0, nameOffset) ==
    toWCUtf8(SubSeq(fileName0, nameOffset + 1, Len(fileName0)),
             Len(fileName0) - nameOffset - 4)

determineEncoding(fileName0) ==
    IF MostlyCyrillic(SelectSeq(FileNameW(fileName0, NameOffset(fileName0)), relevant))
    THEN "CYRILLIC" ELSE "UTF8ORLATIN1"

--------------------------------------------------------------------------
(* GamebryoSaveGame::read: the dispatcher and the creation-time fallback   *)

TES4SAVEGAME  == <<84, 69, 83, 52, 83, 65, 86, 69, 71, 65, 77, 69>>
TESV_SAVEGAME == <<84, 69, 83, 86, 95, 83, 65, 86, 69, 71, 65, 77, 69>>
FO3SAVEGAME   == <<70, 79, 51, 83, 65, 86, 69, 71, 65, 77, 69>>
FO4_SAVEGAME  == <<70, 79, 52, 95, 83, 65, 86, 69, 71, 65, 77, 69>>

\* the initializer list of the loop in read()
Headers ==
    << [first |-> TES4SAVEGAME,  second |-> "readOblivion"],
       [first |-> TESV_SAVEGAME, second |-> "readSkyrim"],
       [first |-> FO3SAVEGAME,   second |-> "readFO3"],
       [first |-> FO4_SAVEGAME,  second |-> "readFO4"] >>

NumHeaders == Len(Headers)

\* the statements of a parser
Statements(parser) ==
    CASE parser = "readOblivion" -> OblivionStatements
      [] parser = "readSkyrim"   -> SkyrimStatements
      [] parser = "readFO3"      -> FO3Statements
      [] parser = "readFO4"      -> FO4Statements

\* (this->*hdr.second)(file)
Invoke(parser, s) ==
    CASE parser = "readOblivion" -> readOblivion(s)
      [] parser = "readSkyrim"   -> readSkyrim(s)
      [] parser = "readFO3"      -> readFO3(s)
      [] parser = "readFO4"      -> readFO4(s)

\* FileWrapper::header: [file |-> the reader afterwards, match |-> result]
header(s, expected) ==
    LET s1 == DecoderRead(DecoderSeek(s, 0), Len(expected))
    IN  [file  |-> [s1 EXCEPT !.val = <<>>],
         match |-> Take(s1.val, Len(expected)) = expected]

\* the state of a GamebryoSaveGame and of its FileWrapper before read()
NewGame(q) ==
    [src |-> <<>>, pos |-> 0, fail |-> FALSE, mem |-> FALSE,
     hfm |-> FALSE, bz |-> FALSE, val |-> <<>>, exc |-> NoExc,
     m_QuickRead |-> q,
     m_PCName |-> <<>>, m_PCLevel |-> 0, m_PCLocation |-> <<>>,
     m_Playtime |-> <<>>, m_SaveNumber |-> Zeros(4),
     m_CreationTime |-> Zeros(4), m_Plugins |-> <<>>,
     m_ScreenshotDim |-> <<0, 0>>, m_Screenshot |-> <<>>,
     version |-> Zeros(4), width |-> Zeros(4), height |-> Zeros(4),
     compressionFormat |-> Zeros(2), compressed |-> Zeros(4),
     uncompressed |-> Zeros(4), formVersion |-> <<0>>,
     encoding |-> "", calls |-> <<>>, at |-> 0, imageReads |-> 0, probes |-> 0, statCalls |-> 0,
     decoders |-> <<>>, known |-> TRUE, ascii |-> TRUE]

\* "quicksave.ess", the file name of the saves of Init
FileName == <<113, 117, 105, 99, 107, 115, 97, 118, 101, 46, 101, 115, 115>>

\* errno after the failed open, and strerror of it
ENOENT == 2
strerror(code) == IF code = ENOENT THEN "No such file or directory" ELSE "Unknown error"

\* MoreInfoException(message, syscall, fileName, code)
MoreInfoException(message, syscall, fileName0, code) ==
    [NoExc EXCEPT !.type = "MoreInfoException", !.what = message,
                  !.syscall = syscall, !.fileName = fileName0, !.code = code]

\* FileWrapper::FileWrapper -> DirectDecoder::DirectDecoder
OpenFile(s) ==
    IF openOk THEN [s EXCEPT !.src = file, !.pos = 0, !.fail = FALSE, !.mem = FALSE]
    ELSE [s EXCEPT !.exc = MoreInfoException(strerror(ENOENT), "open", fileName, ENOENT)]

\* one iteration of the loop over the four headers: [file, found]
ProbeHeader(s, i, fnd) ==
    LET h  == header(s, Headers[i].first)
        s1 == [h.file EXCEPT !.probes = @ + 1]
    IN  IF h.match THEN [file |-> Invoke(Headers[i].second, s1), found |-> TRUE]
        ELSE [file |-> s1, found |-> fnd]

\* the end of read() without the check of `found`
FinishReadUnchecked(s, fnd) ==
    IF IsZero(s.m_CreationTime)
    THEN [s EXCEPT !.statCalls = @ + 1,
                   !.m_CreationTime = IF statRes.res = 0
                                      THEN SubSeq(statRes.st_mtime, 1, 4) ELSE @]
    ELSE s

\* the file's modification time taken whatever the parser has stored
FinishReadStatAlways(s, fnd) ==
    IF ~fnd THEN Throw(s, "runtime_error", "invalid file header", 0, 0)
    ELSE [s EXCEPT !.statCalls = @ + 1,
                   !.m_CreationTime = IF statRes.res = 0
                                      THEN SubSeq(statRes.st_mtime, 1, 4) ELSE @]

\* after the loop: the header check and the creation-time fallback
FinishRead(s, fnd) ==
    IF ~fnd THEN Throw(s, "runtime_error", "invalid file header", 0, 0)
    ELSE IF IsZero(s.m_CreationTime)
    THEN [s EXCEPT !.statCalls = @ + 1,
                   !.m_CreationTime = IF statRes.res = 0
                                      THEN SubSeq(statRes.st_mtime, 1, 4) ELSE @]
    ELSE s

\* the loop from iteration i on, then the rest of read()
RECURSIVE ReadFrom(_, _, _)
ReadFrom(s, i, fnd) ==
    IF Thrown(s) THEN s
    ELSE IF i > NumHeaders THEN FinishRead(s, fnd)
    ELSE LET p == ProbeHeader(s, i, fnd) IN ReadFrom(p.file, i + 1, p.found)

\* CodePage encoding = determineEncoding(m_FileName)
SelectEncoding(s) == [s EXCEPT !.encoding = determineEncoding(fileName)]

\* GamebryoSaveGame::read() as a whole, for a given m_QuickRead
ReadGame(q) == ReadFrom(OpenFile(SelectEncoding(NewGame(q))), 1, FALSE)

\* what the accessors of a GamebryoSaveGame return
Summary(s) ==
    [character_name  |-> s.m_PCName,
     character_level |-> s.m_PCLevel,
     location        |-> s.m_PCLocation,
     save_number     |-> s.m_SaveNumber,
     play_time       |-> s.m_Playtime,
     creation_time   |-> s.m_CreationTime,
     plugins         |-> s.m_Plugins,
     screenshot_size |-> s.m_ScreenshotDim,
     screenshot      |-> s.m_Screenshot]

--------------------------------------------------------------------------
(* Savegame files.  A case is the bytes of a file together with the        *)
(* parameters it was assembled from and the positions of its fields.       *)

MaxSide == 2        \* screenshots are up to MaxSide x MaxSide pixels
MaxPlugins == 2     \* plugin lists and light plugin lists hold up to this

WString(t)  == LE(Len(t), 2) \o t
BZString(t) == <<Len(t) + 1>> \o t \o <<0>>
BString(t)  == <<Len(t)>> \o t
Marked(b)   == b \o <<FieldMarker>>
MString(t)  == Marked(LE(Len(t), 2)) \o (IF Len(t) > 0 THEN Marked(t) ELSE <<>>)

Pixels(n) == [i \in 1..n |-> (37 * i + 11) % 256]

\* pixel data is present only for dimensions the decoder accepts
PixelData(w, h, bpp) ==
    IF w < MaxDimension /\ h < MaxDimension THEN Pixels(w * h * bpp) ELSE <<>>

Hero     == <<72, 101, 114, 111>>
Cyrodiil == <<67, 121, 114, 111, 100, 105, 105, 108>>
Dovah    == <<68, 111, 118, 97, 104>>
Whiterun == <<87, 104, 105, 116, 101, 114, 117, 110>>
Nord     == <<78, 111, 114, 100>>
Played   == <<49, 46, 48, 50, 46, 48, 51>>
Version  == <<49, 46, 49, 48>>

\* the i-th plugin name: "a.esm", "b.esm", ...; the i-th light plugin "a.esl"
PluginName(i) == <<96 + i, 46, 101, 115, 109>>
LightName(i)  == <<96 + i, 46, 101, 115, 108>>

PluginLists ==
    {[i \in 1..n |-> PluginName(i)] : n \in 0..MaxPlugins}
        \cup {<<PluginName(1), PluginName(1)>>}
LightLists ==
    {[i \in 1..n |-> LightName(i)] : n \in 0..MaxPlugins}
        \cup {<<LightName(1), LightName(1)>>}

Sides == 0..MaxSide
BadSides == {MaxDimension, 3000}

\* FILETIMEs: 0, the Unix epoch and its neighbours, 2015-01-01, 2020-01-01,
\* and values around the sign bit
FileTimes ==
    { Zeros(8),
      <<0, 128, 62, 213, 222, 177, 157, 1>>,
      <<127, 22, 215, 213, 222, 177, 157, 1>>,
      <<255, 127, 62, 213, 222, 177, 157, 1>>,
      <<128, 22, 215, 213, 222, 177, 157, 1>>,
      <<0, 128, 185, 226, 85, 37, 208, 1>>,
      <<0, 0, 5, 105, 54, 192, 213, 1>>,
      <<255, 255, 255, 255, 255, 255, 255, 127>>,
      <<0, 0, 0, 0, 0, 0, 0, 128>>,
      <<255, 255, 255, 255, 255, 255, 255, 255>> }
        \cup {<<b1, 0, 0, b4, 0, 0, b7, b8>> :
                b1 \in {1, 255}, b4 \in {0, 5, 255}, b7 \in {0, 213},
                b8 \in {0, 1, 127, 128, 255}}

FileTime2015 == <<0, 128, 185, 226, 85, 37, 208, 1>>

\* game days 3.5, 0.0, 48.99, 0.999 and 2.9999998 as floats, the float
\* next below 7/24 (0x3E955555) and 3.0e9 (0x4F32D05E)
GameDays == { <<0, 0, 96, 64>>,
              <<0, 0, 0, 0>>,
              <<195, 245, 67, 66>>,
              <<119, 190, 127, 63>>,
              <<255, 255, 63, 64>>,
              <<85, 85, 149, 62>>,
              <<94, 208, 50, 79>> }

\* WINSYSTEMTIME 2008-03-21 12:00:00
SaveTime == <<216, 7, 3, 0, 0, 0, 21, 0, 12, 0, 0, 0, 0, 0, 0, 0>>

\* the parameters every file is assembled from
BaseParams ==
    [save |-> 7, name |-> Hero, level |-> 5, loc |-> Cyrodiil,
     play |-> Played, race |-> Nord, ftime |-> FileTime2015,
     days |-> <<0, 0, 96, 64>>, time |-> SaveTime,
     version |-> 9, form |-> SkyrimLightVersion, w |-> 1, h |-> 1, comp |-> 0,
     plugins |-> <<PluginName(1)>>, light |-> <<LightName(1)>>,
     extra |-> <<>>, body |-> <<>>, damage |-> "none"]

PluginBytes(pl, Enc(_)) == <<Len(pl)>> \o Flatten(Map(Enc, pl))
LightBytes(pl) == LE(Len(pl), 2) \o Flatten(Map(WString, pl))

Case(format, p, bytes, widthPos, checkPos) ==
    [bytes  |-> bytes,
     layout |-> [format |-> format, p |-> [p EXCEPT !.body = <<>>],
                 crafted |-> p.body # <<>>, cut |-> FALSE,
                 widthPos |-> widthPos, checkPos |-> checkPos]]

OblivionCase(p) ==
    LET head == TES4SAVEGAME \o <<0, 125>> \o Zeros(16) \o LE(0, 4) \o LE(0, 4)
                  \o LE(p.save, 4) \o BZString(p.name) \o LE(p.level % 65536, 2)
                  \o BZString(p.loc) \o p.days \o LE(0, 4) \o p.time \o LE(0, 4)
    IN  Case("oblivion", p,
             head \o LE(p.w, 4) \o LE(p.h, 4) \o PixelData(p.w, p.h, 3)
                  \o PluginBytes(p.plugins, BString),
             Len(head), Len(head) + 8)

\* a deflate stream of one stored block inside a zlib wrapper
ZlibStored(data) ==
    <<120, 1, 1>> \o LE(Len(data), 2) \o LE(65535 - Len(data), 2) \o data
        \o Adler32(data)

\* an LZ4 block that is one run of literals
LZ4Literals(data) ==
    IF Len(data) < 15 THEN <<16 * Len(data)>> \o data
    ELSE <<240>> \o [i \in 1..((Len(data) - 15) \div 255) |-> 255]
            \o <<(Len(data) - 15) % 255>> \o data

\* the compressed region of a Skyrim SE save, possibly damaged
Compressed(p, body) ==
    LET c == IF p.comp = 1 THEN ZlibStored(body)
             ELSE IF p.comp = 2 THEN LZ4Literals(body)
             ELSE body
    IN  CASE p.damage = "cut"     -> SubSeq(c, 1, Len(c) - 1)
          [] p.damage = "header"  -> <<(c[1] + 16) % 256>> \o Tail(c)
          [] p.damage = "trailer" -> SubSeq(c, 1, Len(c) - 1) \o <<(c[Len(c)] + 1) % 256>>
          [] OTHER                -> c

CompressedLen(p, body) ==
    Len(Compressed([p EXCEPT !.damage = "none"], body))

SkyrimBody(p) ==
    IF p.body # <<>> THEN p.body
    ELSE <<p.form>> \o LE(0, 4) \o PluginBytes(p.plugins, WString)
            \o (IF p.form >= SkyrimLightVersion THEN LightBytes(p.light) ELSE <<>>)

SkyrimCase(p) ==
    LET head == TESV_SAVEGAME \o LE(0, 4) \o LE(p.version, 4) \o LE(p.save, 4)
                  \o WString(p.name) \o LE(p.level, 4) \o WString(p.loc)
                  \o WString(p.play) \o WString(p.race) \o LE(0, 2) \o Zeros(8)
                  \o p.ftime
        body == SkyrimBody(p)
    IN  IF p.version < SkyrimSEVersion
        THEN Case("skyrim", p,
                  head \o LE(p.w, 4) \o LE(p.h, 4) \o PixelData(p.w, p.h, 3) \o body,
                  Len(head), Len(head) + 8)
        ELSE Case("skyrimse", p,
                  head \o LE(p.w, 4) \o LE(p.h, 4) \o LE(p.comp, 2)
                       \o PixelData(p.w, p.h, 4) \o LE(Len(body), 4)
                       \o LE(CompressedLen(p, body), 4) \o Compressed(p, body),
                  Len(head), Len(head) + 10)

\* p.extra is the field New Vegas has between the delimiter and the width
FO3Case(p) ==
    LET pre  == FO3SAVEGAME \o LE(0, 4) \o LE(48, 4) \o <<FieldMarker>>
                  \o (IF p.extra # <<>> THEN Marked(p.extra) ELSE <<>>)
        head == pre \o Marked(LE(p.w, 4)) \o Marked(LE(p.h, 4))
                  \o Marked(LE(p.save, 4)) \o MString(p.name) \o MString(p.race)
                  \o Marked(LE(p.level, 4)) \o MString(p.loc) \o MString(p.play)
    IN  Case(IF p.extra # <<>> THEN "nv" ELSE "fo3", p,
             head \o PixelData(p.w, p.h, 3) \o Zeros(5)
                  \o Marked(<<Len(p.plugins)>>) \o Flatten(Map(MString, p.plugins)),
             Len(pre), Len(head))

FO4Case(p) ==
    LET head == FO4_SAVEGAME \o LE(0, 4) \o LE(p.version, 4) \o LE(p.save, 4)
                  \o WString(p.name) \o LE(p.level, 4) \o WString(p.loc)
                  \o WString(p.play) \o WString(p.race) \o LE(0, 2) \o Zeros(8)
                  \o p.ftime
    IN  Case("fo4", p,
             head \o LE(p.w, 4) \o LE(p.h, 4) \o PixelData(p.w, p.h, 4)
                  \o <<p.form>> \o WString(Version) \o LE(0, 4)
                  \o PluginBytes(p.plugins, WString)
                  \o (IF p.form >= FO4LightVersion THEN LightBytes(p.light) ELSE <<>>),
             Len(head), Len(head) + 8)

\* the first n bytes of a file
Cut(c, n) ==
    [bytes |-> SubSeq(c.bytes, 1, n), layout |-> [c.layout EXCEPT !.cut = TRUE]]

Prefixes(c) == {Cut(c, n) : n \in 0..(Len(c.bytes) - 1)}

\* A plugin section that begins with a magic: the form version, the plugin
\* info size and the plugin count are the first six bytes of the magic, the
\* next two the length of the first plugin name, which begins with the rest
\* of the magic and is NUL from there on except for the image dimensions
\* 1 x 1 that readFO4 finds at offsets 54 and 58; the other plugins are empty.
MagicBody(magic) ==
    LET count  == magic[6]
        length == magic[7] + 256 * magic[8]
    IN  [i \in 1..(8 + length + 2 * (count - 1)) |->
            IF i <= Len(magic) THEN magic[i]
            ELSE IF i \in {55, 59} THEN 1 ELSE 0]

English == <<69, 78, 71, 76, 73, 83, 72>>

\* the screenshot and plugin variations of a parameter record
Variants(p) ==
    {[p EXCEPT !.w = w, !.h = h] : w, h \in Sides}
        \cup {[p EXCEPT !.w = b] : b \in BadSides}
        \cup {[p EXCEPT !.h = b] : b \in BadSides}
        \cup {[p EXCEPT !.plugins = pl] : pl \in PluginLists}

TimeVariants(p) == {[p EXCEPT !.ftime = t] : t \in FileTimes}

FormVariants(p, forms) ==
    {[p EXCEPT !.form = f, !.light = l] : f \in forms, l \in LightLists}

SEParams == [BaseParams EXCEPT !.version = SkyrimSEVersion]
NVParams == [BaseParams EXCEPT !.extra = English]

\* Skyrim SE saves: every compression format, intact and damaged
CompressionVariants ==
    {[SEParams EXCEPT !.comp = c] : c \in 0..3}
        \cup {[SEParams EXCEPT !.comp = c, !.damage = d, !.plugins = pl] :
                c \in {1, 2}, d \in {"cut", "header", "trailer"},
                pl \in {<<>>, <<PluginName(1)>>}}

\* Skyrim SE saves whose compressed plugin section begins with a magic
CraftedVariants ==
    {[SEParams EXCEPT !.comp = 2, !.body = MagicBody(m)] :
        m \in {FO3SAVEGAME, FO4_SAVEGAME}}

OblivionCases ==
    {OblivionCase(p) :
        p \in Variants(BaseParams)
                \cup {[BaseParams EXCEPT !.days = d] : d \in GameDays}}

SkyrimCases ==
    {SkyrimCase(p) :
        p \in Variants(BaseParams) \cup TimeVariants(BaseParams)
                \cup FormVariants(BaseParams, {SkyrimLightVersion - 1, SkyrimLightVersion})
                \cup Variants(SEParams) \cup CraftedVariants}

FO3Cases ==
    {FO3Case(p) :
        p \in Variants(BaseParams) \cup Variants([BaseParams EXCEPT !.extra = English])}

FO4Cases ==
    {FO4Case(p) :
        p \in Variants(BaseParams) \cup TimeVariants(BaseParams)
                \cup FormVariants(BaseParams, {FO4LightVersion - 1, FO4LightVersion})}

\* one plain file of each format
Plain ==
    {OblivionCase(BaseParams), SkyrimCase(BaseParams), SkyrimCase(SEParams),
     FO3Case(BaseParams), FO4Case(BaseParams)}

\* files that begin with no magic
Strangers ==
    {Case("none", BaseParams, b, 0, 0) :
        b \in {<<>>, <<0>>, Zeros(16), Hero \o Cyrodiil \o Whiterun}}

\* a plugin name of n bytes, the last `nul` of them NUL, none of them '|'
LongName(n, nul) == [i \in 1..n |-> IF i > n - nul THEN 0 ELSE 97 + (i % 26)]

\* names at the limit of sanityCheck(name.length() <= 256), one byte over
\* it, and over it with NUL bytes at the end
LongNames ==
    { LongName(MaxPluginName, 0), LongName(MaxPluginName + 1, 0),
      LongName(MaxPluginName + 1, 1), LongName(MaxPluginName + 2, 1),
      LongName(MaxPluginName + 44, MaxPluginName + 43) }

LongNameVariants(p) ==
    {[p EXCEPT !.plugins = <<PluginName(1), nm>>] : nm \in LongNames}
        \cup {[p EXCEPT !.light = <<nm, LightName(1)>>] : nm \in LongNames}

\* saves with long plugin names; Oblivion's names have a one-byte length
LongNameCases ==
    {SkyrimCase(p) : p \in LongNameVariants(BaseParams) \cup LongNameVariants(SEParams)}
        \cup {FO3Case(p) : p \in LongNameVariants(BaseParams)}
        \cup {FO4Case(p) : p \in LongNameVariants(BaseParams)}

\* a save followed by a list of light plugins, whatever its form version
WithLightTail(c) ==
    [bytes |-> c.bytes \o LightBytes(c.layout.p.light), layout |-> c.layout]

\* saves that do not announce light plugins and are followed by some
LightTailCases ==
    {WithLightTail(c) :
        c \in {OblivionCase(BaseParams), FO3Case(BaseParams), FO3Case(NVParams),
               SkyrimCase([BaseParams EXCEPT !.form = SkyrimLightVersion - 1]),
               SkyrimCase([SEParams EXCEPT !.form = SkyrimLightVersion - 1]),
               FO4Case([BaseParams EXCEPT !.form = FO4LightVersion - 1])}}

\* character levels at and beyond the ends of 16 bits, as 32-bit numbers
Levels == {0, 65535, 65536, 65541, 2147483647, -1, -65531, -2147483647}

\* saves of every format with these levels
LevelCases ==
    UNION {{OblivionCase(p), SkyrimCase(p), FO3Case(p), FO4Case(p)} :
              p \in {[BaseParams EXCEPT !.level = l] : l \in Levels}}
        \cup {SkyrimCase([SEParams EXCEPT !.level = l]) : l \in Levels}
        \cup {FO3Case([NVParams EXCEPT !.level = l]) : l \in Levels}

\* the files read in the usual world only
Cases ==
    OblivionCases \cup SkyrimCases \cup FO3Cases \cup FO4Cases \cup Strangers
        \cup UNION {Prefixes(c) : c \in Plain} \cup LongNameCases
        \cup LightTailCases \cup LevelCases

\* the files read in every world
WideCases ==
    Plain \cup {SkyrimCase(p) : p \in CompressionVariants}
          \cup {Cut(FO3Case(BaseParams), 29)}

\* what stat reports: its result and st_mtime, a 64-bit time_t
StatResults ==
    {[res |-> r, st_mtime |-> t] :
        r \in {0, -1},
        t \in {LE(1600000000, 4) \o Zeros(4), Zeros(8), <<1, 0, 0, 0, 1, 0, 0, 0>>}}

\* what the parse does not control: the value of an uninitialised byte,
\* whether inflateInit succeeds, the offset of local time in seconds
Environments ==
    {[uninit |-> u, inflateInitOk |-> z, mktimeShift |-> m] :
        u \in {0, FieldMarker}, z \in BOOLEAN, m \in {0, 3600}}

Usual == [openOk |-> TRUE,
          statRes |-> [res |-> 0, st_mtime |-> LE(1600000000, 4) \o Zeros(4)],
          env |-> [uninit |-> 0, inflateInitOk |-> TRUE, mktimeShift |-> 0]]

Worlds == [openOk : BOOLEAN, statRes : StatResults, env : Environments]

--------------------------------------------------------------------------
(* File names, as code points                                              *)

Ess  == <<46, 101, 115, 115>>               \* ".ess"
Ivan == <<1048, 1074, 1072, 1085>>          \* "Ivan" in Cyrillic letters

\* n letters, the first c of them Cyrillic, the others Latin
Mixed(n, c) == [i \in 1..n |-> IF i <= c THEN 1072 + (i % 32) ELSE 97 + (i % 26)]

NameTexts ==
    { Ivan \o <<45, 48, 49>> \o Ess,                \* Ivan, then "-01.ess"
      <<83, 97, 118, 101, 32, 55>> \o Ess,          \* "Save 7.ess"
      <<48, 49>> \o Ess,                            \* "01.ess"
      Ess,
      <<67, 58, 92, 115, 92>> \o Ivan \o Ess,       \* under "C:\s\"
      <<1076, 47, 97, 98>> \o Ess,                  \* "ab.ess" in a Cyrillic folder
      Ivan \o <<47, 115, 46, 49>> \o Ivan \o <<92>> \o Ivan \o <<97>> \o Ess,
      Ivan,                                         \* no extension
      Ivan \o Ivan \o <<97, 98, 99>>,
      <<1046, 49>>,                                 \* two characters, three bytes
      <<1048, 1048, 128512>> \o Ess,                \* with U+1F600
      <<1048, 128512, 49>> \o Ess,
      <<1048, 8364>> \o Ess }                       \* with U+20AC
        \cup {<<cp>> \o Ess : cp \in {1023, 1024, 1327, 1328}}
        \cup {Mixed(n, c) \o Ess : n \in {1, 2, 3, 4, 5}, c \in 0..5}
        \cup {Mixed(n, c) \o Ess : n \in {50, 51}, c \in {25, 26, 27}}

FileNames == {Flatten(Map(Utf8, nm)) : nm \in NameTexts}

--------------------------------------------------------------------------
(* The two entry points: new GamebryoSaveGame(path, quick), which reads on *)
(* the calling thread, and create(path, quick, callback), which reads on a *)
(* thread of its own and hands the outcome to the thread-safe function.    *)

JsNull == [type |-> "null"]
JsError(message) == [type |-> "Error", message |-> message]

\* the call: its arguments, and nothing read yet
Called ==
    /\ quick \in BOOLEAN
    /\ mode \in {"sync", "async"}
    /\ pc = "idle"
    /\ idx = 1
    /\ found = FALSE
    /\ st = NewGame(quick)
    /\ tsfn = [created |-> FALSE, threads |-> 0, queue |-> <<>>,
               captured |-> 0, loadThread |-> 0, joined |-> "none"]
    /\ delivered = <<>>
    /\ raised = <<>>

Init ==
    /\ fileName = FileName
    /\ \E c \in Cases \cup WideCases :
         /\ file = c.bytes
         /\ layout = c.layout
         /\ \E w \in IF c \in WideCases THEN Worlds ELSE {Usual} :
              /\ openOk = w.openOk
              /\ statRes = w.statRes
              /\ env = w.env
    /\ Called

\* one save under every file name
EncodingInit ==
    /\ fileName \in FileNames
    /\ file = OblivionCase(BaseParams).bytes
    /\ layout = OblivionCase(BaseParams).layout
    /\ openOk \in BOOLEAN
    /\ statRes = Usual.statRes
    /\ env = Usual.env
    /\ Called

\* GamebryoSaveGame::GamebryoSaveGame with a file name: read() is entered
Construct ==
    /\ pc = "idle" /\ mode = "sync"
    /\ pc' = "encoding"
    /\ UNCHANGED <<fileName, file, layout, openOk, statRes, env, quick, mode, idx, found,
                   st, tsfn, delivered, raised>>

\* the address `new std::thread` returns
ThreadAddress == 64

\* create -> readAsync: the thread-safe function is made with one thread
\* and a finaliser that holds a copy of loadThread, taken before loadThread
\* is assigned; then the load thread is made and starts with read()
Create ==
    /\ pc = "idle" /\ mode = "async"
    /\ tsfn' = [created |-> TRUE, threads |-> 1, queue |-> <<>>,
                captured |-> env.uninit, loadThread |-> ThreadAddress,
                joined |-> "none"]
    /\ pc' = "encoding"
    /\ UNCHANGED <<fileName, file, layout, openOk, statRes, env, quick, mode, idx, found,
                   st, delivered, raised>>

\* read(): the code page is chosen from the file name
Determine ==
    /\ pc = "encoding"
    /\ st' = SelectEncoding(st)
    /\ pc' = "open"
    /\ UNCHANGED <<fileName, file, layout, openOk, statRes, env, quick, mode, idx, found,
                   tsfn, delivered, raised>>

\* read(): the FileWrapper is constructed
Open ==
    /\ pc = "open"
    /\ st' = OpenFile(st)
    /\ pc' = IF Thrown(st') THEN "caught" ELSE "probe"
    /\ UNCHANGED <<fileName, file, layout, openOk, statRes, env, quick, mode, idx, found,
                   tsfn, delivered, raised>>

\* read(): one iteration of the loop over the headers
Probe ==
    /\ pc = "probe"
    /\ LET r == ProbeHeader(st, idx, found)
       IN  /\ st' = r.file
           /\ found' = r.found
           /\ idx' = idx + 1
           /\ pc' = IF Thrown(r.file) THEN "caught"
                    ELSE IF idx = NumHeaders THEN "finish" ELSE "probe"
    /\ UNCHANGED <<fileName, file, layout, openOk, statRes, env, quick, mode, tsfn, delivered, raised>>

\* read(): after the loop
Finish ==
    /\ pc = "finish"
    /\ st' = FinishRead(st, found)
    /\ pc' = IF Thrown(st') THEN "caught" ELSE "read"
    /\ UNCHANGED <<fileName, file, layout, openOk, statRes, env, quick, mode, idx, found,
                   tsfn, delivered, raised>>

\* the constructor returns the object
Return ==
    /\ pc = "read" /\ mode = "sync"
    /\ pc' = "returned"
    /\ UNCHANGED <<fileName, file, layout, openOk, statRes, env, quick, mode, idx, found,
                   st, tsfn, delivered, raised>>

\* the constructor's catch: the exception goes to the caller as a
\* Napi::Error made from e.what()
Rethrow ==
    /\ pc = "caught" /\ mode = "sync"
    /\ pc' = "threw"
    /\ raised' = Append(raised, JsError(st.exc.what))
    /\ UNCHANGED <<fileName, file, layout, openOk, statRes, env, quick, mode, idx, found,
                   st, tsfn, delivered>>

\* a load thread whose catch block swallows the exception
PostOnSuccessOnly ==
    /\ mode = "async" /\ pc \in {"read", "caught"}
    /\ tsfn' = [tsfn EXCEPT !.threads = @ + 1,
                            !.queue = IF pc = "read" THEN Append(@, "callback") ELSE @]
    /\ pc' = "release"
    /\ UNCHANGED <<fileName, file, layout, openOk, statRes, env, quick, mode, idx, found,
                   st, delivered, raised>>

\* the load thread after read(): Acquire and BlockingCall, with the object
\* and `callback`, or in the catch with the message and `callbackError`
Post ==
    /\ mode = "async" /\ pc \in {"read", "caught"}
    /\ tsfn' = [tsfn EXCEPT !.threads = @ + 1,
                            !.queue = Append(@, IF pc = "read" THEN "callback"
                                                ELSE "callbackError")]
    /\ pc' = "release"
    /\ UNCHANGED <<fileName, file, layout, openOk, statRes, env, quick, mode, idx, found,
                   st, delivered, raised>>

\* the load thread's last statement
Release ==
    /\ pc = "release"
    /\ tsfn' = [tsfn EXCEPT !.threads = @ - 1]
    /\ pc' = "done"
    /\ UNCHANGED <<fileName, file, layout, openOk, statRes, env, quick, mode, idx, found,
                   st, delivered, raised>>

\* the host's thread takes a call from the queue and calls the JavaScript
\* function: (null, result->Value()) or (Error(what))
Deliver ==
    /\ tsfn.queue # <<>>
    /\ delivered' = Append(delivered,
                           IF Head(tsfn.queue) = "callback"
                           THEN <<JsNull, Summary(st)>>
                           ELSE <<JsError(st.exc.what)>>)
    /\ tsfn' = [tsfn EXCEPT !.queue = Tail(@)]
    /\ UNCHANGED <<fileName, file, layout, openOk, statRes, env, quick, mode, pc, idx, found, st, raised>>

\* the finaliser of the thread-safe function, called by the host when the
\* thread count is zero or when the environment is torn down, here after
\* the work of the load thread: join and delete through the captured
\* pointer, undefined if that is not the load thread
Finalise ==
    /\ tsfn.created /\ tsfn.joined = "none"
    /\ pc = "done" /\ tsfn.queue = <<>>
    /\ tsfn' = [tsfn EXCEPT !.joined = IF tsfn.captured = tsfn.loadThread
                                       THEN "loadThread" ELSE "undefined"]
    /\ UNCHANGED <<fileName, file, layout, openOk, statRes, env, quick, mode, pc, idx,
                   found, st, delivered, raised>>

Next ==
    \/ Construct
    \/ Create
    \/ Determine
    \/ Open
    \/ Probe
    \/ Finish
    \/ Return
    \/ Rethrow
    \/ Post
    \/ Release
    \/ Deliver

Spec == Init /\ [][Next]_vars

\* the same program, run on one save under every file name
EncodingSpec == EncodingInit /\ [][Next]_vars

\* the same program with the end of the thread-safe function: a few files,
\* and every value the uninitialised loadThread of readAsync may hold
AsyncInit ==
    /\ fileName = FileName
    /\ \E c \in Plain \cup Strangers \cup {Cut(FO3Case(BaseParams), 29)} :
         file = c.bytes /\ layout = c.layout
    /\ openOk \in BOOLEAN
    /\ statRes = Usual.statRes
    /\ env \in {[Usual.env EXCEPT !.uninit = u] : u \in {0, FieldMarker, ThreadAddress}}
    /\ Called

AsyncNext == Next \/ Finalise

AsyncSpec == AsyncInit /\ [][AsyncNext]_vars

\* the load thread
Worker == Post \/ Release

\* the same with the load thread and the host's event loop never stopped
\* for good
AsyncLive == AsyncSpec /\ WF_vars(Worker) /\ WF_vars(Deliver)

--------------------------------------------------------------------------
(* The same program with the format parsers taken one statement at a      *)
(* time: st.at is the index of the next statement of the parser that runs. *)

\* a file with the byte at offset k - 1 replaced
Garbled(c, k, v) ==
    [bytes  |-> [c.bytes EXCEPT ![k] = v],
     layout |-> [c.layout EXCEPT !.crafted = TRUE]]

\* the offsets, counted from 1, of the '|' bytes before the screenshot
MarkersOf(c) ==
    {k \in 1..c.layout.checkPos : c.bytes[k] = FieldMarker}

\* a Fallout 4 save without light plugins that announces as many plugins as
\* the count byte can, followed by n bytes of nameless plugins
MaxCount == 255
ManyPlugins(n) ==
    LET c == FO4Case([BaseParams EXCEPT !.plugins = <<>>, !.form = FO4LightVersion - 1])
    IN  [bytes  |-> SubSeq(c.bytes, 1, Len(c.bytes) - 1) \o <<MaxCount>> \o Zeros(n),
         layout |-> [c.layout EXCEPT !.crafted = TRUE]]

\* names that are empty or end in NUL
StringVariants(p) ==
    {[p EXCEPT !.name = nm, !.loc = lc] :
        nm \in {<<>>, Hero, Hero \o <<0>>, <<0, 0>>}, lc \in {<<>>, Cyrodiil}}

SteppedCases ==
    Plain \cup {FO3Case(NVParams)}
          \cup {ManyPlugins(2 * MaxCount), ManyPlugins(MaxCount)}
          \cup {FO3Case([BaseParams EXCEPT !.extra = Nord]),
                FO3Case([BaseParams EXCEPT !.w = FieldMarker]),
                FO3Case([BaseParams EXCEPT !.w = 256 * FieldMarker])}
          \cup {SkyrimCase(p) : p \in CompressionVariants}
          \cup {OblivionCase(p) : p \in StringVariants(BaseParams)}
          \cup {SkyrimCase(p) : p \in StringVariants(BaseParams)}
          \cup {FO3Case(p) : p \in StringVariants(BaseParams)}
          \cup {FO4Case(p) : p \in StringVariants(BaseParams)}
          \cup {OblivionCase(p) : p \in Variants(BaseParams)}
          \cup {SkyrimCase(p) : p \in Variants(BaseParams) \cup Variants(SEParams)}
          \cup {FO3Case(p) : p \in Variants(BaseParams)}
          \cup {FO4Case(p) : p \in Variants(BaseParams)}
          \cup {Cut(FO3Case(BaseParams), Len(FO3SAVEGAME)),
                Cut(FO4Case(BaseParams), Len(FO4_SAVEGAME))}
          \cup {Garbled(FO3Case(BaseParams), k, v) :
                    k \in MarkersOf(FO3Case(BaseParams)), v \in {0, 125}}
          \cup {Garbled(FO3Case(NVParams), k, 0) : k \in MarkersOf(FO3Case(NVParams))}
          \cup {Garbled(OblivionCase(BaseParams), Len(TES4SAVEGAME) + 31, 0)}
          \cup Prefixes(FO3Case(BaseParams)) \cup Prefixes(SkyrimCase(SEParams))

SteppedInit ==
    /\ fileName = FileName
    /\ \E c \in SteppedCases : file = c.bytes /\ layout = c.layout
    /\ openOk = TRUE
    /\ statRes = Usual.statRes
    /\ env \in {Usual.env, [Usual.env EXCEPT !.uninit = FieldMarker]}
    /\ Called

\* the parser that runs and the statement it is at
Running == Statements(Headers[idx].second)
AtEnd   ==
    IF st.at > Len(Running) THEN TRUE
    ELSE Running[st.at].op = "quick" /\ st.m_QuickRead

\* read(): file.header(hdr.first) and, on a match, the call of the parser
Match ==
    /\ pc = "probe"
    /\ LET h  == header(st, Headers[idx].first)
           s1 == [h.file EXCEPT !.probes = @ + 1]
       IN  IF h.match
           THEN /\ st' = [Enter(s1, Headers[idx].second) EXCEPT !.at = 1]
                /\ found' = TRUE
                /\ idx' = idx
                /\ pc' = "step"
           ELSE /\ st' = s1
                /\ found' = found
                /\ idx' = idx + 1
                /\ pc' = IF idx = NumHeaders THEN "finish" ELSE "probe"
    /\ UNCHANGED <<fileName, file, layout, openOk, statRes, env, quick, mode, tsfn,
                   delivered, raised>>

\* one statement of the parser that runs
Step ==
    /\ pc = "step" /\ ~AtEnd
    /\ st' = [Do(st, Running[st.at]) EXCEPT !.at = st.at + 1]
    /\ pc' = IF Thrown(st') THEN "caught" ELSE "step"
    /\ UNCHANGED <<fileName, file, layout, openOk, statRes, env, quick, mode, idx,
                   found, tsfn, delivered, raised>>

\* a loop that tests the header of the parser that returned once more
LeaveToSameHeader ==
    /\ pc = "step" /\ AtEnd
    /\ st' = [st EXCEPT !.at = 0]
    /\ pc' = "probe"
    /\ UNCHANGED <<fileName, file, layout, openOk, statRes, env, quick, mode, idx,
                   found, tsfn, delivered, raised>>

\* the parser returns to the loop over the headers
Leave ==
    /\ pc = "step" /\ AtEnd
    /\ st' = [st EXCEPT !.at = 0]
    /\ idx' = idx + 1
    /\ pc' = IF idx = NumHeaders THEN "finish" ELSE "probe"
    /\ UNCHANGED <<fileName, file, layout, openOk, statRes, env, quick, mode,
                   found, tsfn, delivered, raised>>

SteppedNext ==
    \/ Construct
    \/ Create
    \/ Determine
    \/ Open
    \/ Match
    \/ Step
    \/ Leave
    \/ Finish
    \/ Return
    \/ Rethrow
    \/ Post
    \/ Release
    \/ Deliver

SteppedSpec == SteppedInit /\ [][SteppedNext]_vars

--------------------------------------------------------------------------
(* What the properties below speak about                                   *)

\* read() is over, by return or by exception
ReadOver == pc \in {"read", "caught", "returned", "threw", "release", "done"}

Succeeded == ReadOver /\ ~Thrown(st)
Failed    == ReadOver /\ Thrown(st)

\* a format parser has returned and read() has not yet looked at
\* m_CreationTime: it holds what the parser stored
ParserReturned ==
    /\ pc \in {"probe", "finish"}
    /\ Len(st.calls) = 1
    /\ ~Thrown(st)

HasFileTime == layout.format \in {"skyrim", "skyrimse", "fo4"}

\* the fields of a summary other than the image and the plugin list
Metadata(s) ==
    <<s.m_PCName, s.m_PCLevel, s.m_PCLocation, s.m_SaveNumber, s.m_Playtime,
      s.m_CreationTime>>

\* b times d, d < 2^23, three bytes wider than b
RECURSIVE TimesFrom(_, _, _, _)
TimesFrom(b, d, i, carry) ==
    IF i > Len(b) THEN LE(carry, 3)
    ELSE LET v == b[i] * d + carry
         IN  <<v % 256>> \o TimesFrom(b, d, i + 1, v \div 256)

\* q * 10^7, six bytes wider than q
TicksOf(q) == TimesFrom(TimesFrom(q, 10000, 1, 0), 1000, 1, 0)

\* q = t / 10^7 for unsigned t, stated by multiplication:
\* 0 <= t - q * 10^7 < 10^7
IsQuotient(q, t) ==
    LET d == SubFrom(t \o Zeros(6), TicksOf(q), 1, 0)
    IN  /\ \A i \in 4..Len(d) : d[i] = 0
        /\ Val(SubSeq(d, 1, 3)) < WINDOWS_TICK

\* r = (q - 11644473600) mod 2^32 for a q of which only r is known: the low
\* half of q is that of r + 11644473600, the high half is below 430
\* because q < 2^64 / 10^7
QuotientsFor(r) ==
    LET low == SubSeq(Sub64(r \o Zeros(4), Neg64(SEC_TO_UNIX_EPOCH)), 1, 4)
    IN  {low \o LE(k, 4) : k \in 0..429}

FileTime2020 == <<0, 0, 5, 105, 54, 192, 213, 1>>   \* 132223104000000000

--------------------------------------------------------------------------
(* The properties                                                          *)

\* C1: during one parse at most one format parser is invoked; once a
\* parser has returned no other parser runs, whatever the file or its
\* decompressed region holds.
C1_FirstMatchWins == Len(st.calls) <= 1

C3_CallbackOnce ==
    /\ Len(delivered) + Len(tsfn.queue) <= 1
    /\ delivered # <<>> =>
          /\ mode = "async" /\ ReadOver
          /\ delivered[1] = IF Thrown(st) THEN <<JsError(st.exc.what)>>
                            ELSE <<JsNull, Summary(st)>>
    /\ pc \in {"release", "done"} => Len(delivered) + Len(tsfn.queue) = 1
    /\ (pc = "done" /\ tsfn.queue = <<>>) => Len(delivered) = 1

C3_Witness ==
    /\ pc = "release" /\ Len(delivered) = 1
    /\ delivered[1][1] = JsNull
    /\ delivered[1][2].plugins # <<>>

\* C4: when the embedded timestamp is absent (Fallout 3 / New Vegas) or
\* zero (a Skyrim or Fallout 4 save whose FILETIME is 0) and stat succeeds,
\* creation_time is the file's last-modified time.
C4_FallbackToModifiedTime ==
    (/\ Succeeded
     /\ statRes.res = 0
     /\ \/ layout.format \in {"fo3", "nv"}
        \/ HasFileTime /\ IsZero(layout.p.ftime))
        => st.m_CreationTime = SubSeq(statRes.st_mtime, 1, 4)

\* C5: for every u64 FILETIME read by readSkyrim or readFO4, the parser
\* stores (ticks / 10^7 - 11644473600) mod 2^32, ticks being unsigned.
C5_UnsignedTicks ==
    (ParserReturned /\ HasFileTime) =>
        \E q \in QuotientsFor(st.m_CreationTime) : IsQuotient(q, layout.p.ftime)

\* C6, as stated: ticks = 132223104000000000 gives creation_time 1578441600.
C6_TicksOf2020Jan08 ==
    (ParserReturned /\ HasFileTime /\ layout.p.ftime = FileTime2020)
        => st.m_CreationTime = LE(1578441600, 4)

\* C6, amended: ticks = 132223104000000000 gives creation_time 1577836800,
\* which is 2020-01-01T00:00:00Z.
C6_TicksOf2020Jan01 ==
    (ParserReturned /\ HasFileTime /\ layout.p.ftime = FileTime2020)
        => st.m_CreationTime = LE(1577836800, 4)

C6_Witness ==
    /\ ParserReturned /\ HasFileTime /\ layout.p.ftime = FileTime2020
    /\ st.calls = <<"readFO4">>
    /\ st.m_CreationTime = <<0, 225, 11, 94>>

\* a full parse of an uncut file whose image header has a width >= 2000
WideImage ==
    /\ ReadOver /\ ~quick /\ openOk
    /\ layout.format # "none" /\ ~layout.cut
    /\ layout.p.w >= MaxDimension

\* C7, as stated: a full parse given width >= 2000 fails with DataInvalid
\* whose offset is the position at which the width field starts.
C7_OffsetOfWidthField ==
    WideImage =>
        /\ st.exc.type = "DataInvalid"
        /\ st.exc.offset = layout.widthPos

\* C7, amended: a full parse given width >= 2000 fails with DataInvalid
\* "invalid width" whose offset is the reader's position when the check is
\* made: 8 bytes past the start of the width field for Oblivion, Skyrim
\* and Fallout 4 (width and height are read), 10 bytes past it for Skyrim
\* SE (the compression format is read too), and the end of the play time
\* field, where the pixels begin, for Fallout 3 and New Vegas.
C7_OffsetOfCheck ==
    WideImage =>
        /\ st.exc.type = "DataInvalid"
        /\ st.exc.what = "invalid width"
        /\ st.exc.offset = layout.checkPos
        /\ layout.checkPos =
              CASE layout.format \in {"oblivion", "skyrim", "fo4"} -> layout.widthPos + 8
                [] layout.format = "skyrimse" -> layout.widthPos + 10
                [] OTHER -> st.pos

C7_Witness ==
    /\ WideImage /\ layout.format = "skyrimse" /\ layout.p.w = 3000
    /\ st.exc.what = "invalid width"
    /\ st.exc.offset = layout.widthPos + 10

\* a decompressing decoder was installed and the decompression failed
DecompressionFailed ==
    \E i \in 1..Len(st.decoders) :
        ~st.decoders[i].readOk \/ ~st.decoders[i].inflated

\* C8: when setCompression installs the zlib or the LZ4 decoder and the
\* decompression fails, the parse ends with an error tagged with the
\* offset in the outer stream; no summary comes from a failed
\* decompression.
C8_FailedDecompressionIsAnError ==
    (ReadOver /\ DecompressionFailed) => Thrown(st)

\* C9: after a successful parse the screenshot is empty or has
\* 4 * width * height bytes, width and height being the recorded
\* screenshot size, and both are below 2000.
C9_ScreenshotSize ==
    Succeeded =>
        /\ \/ st.m_Screenshot = <<>>
           \/ Len(st.m_Screenshot) = 4 * st.m_ScreenshotDim[1] * st.m_ScreenshotDim[2]
        /\ st.m_ScreenshotDim[1] < MaxDimension
        /\ st.m_ScreenshotDim[2] < MaxDimension

C9_Witness ==
    /\ Succeeded /\ ~quick
    /\ layout.format = "fo3"
    /\ st.m_ScreenshotDim = <<MaxSide, MaxSide>>
    /\ Len(st.m_Screenshot) = 4 * MaxSide * MaxSide

--------------------------------------------------------------------------
(* Plugin names                                                            *)

\* the names of the plugin entries a full read of the file goes through
EntryNames ==
    LET p == layout.p
    IN  {p.plugins[i] : i \in 1..Len(p.plugins)}
          \cup IF \/ (layout.format \in {"skyrim", "skyrimse"} /\ p.form >= SkyrimLightVersion)
                   \/ (layout.format = "fo4" /\ p.form >= FO4LightVersion)
                THEN {p.light[i] : i \in 1..Len(p.light)} ELSE {}

\* a full read of a whole, undamaged save holding a plugin entry whose
\* name is longer than 256 bytes
LongEntryRead ==
    /\ ReadOver /\ ~quick /\ openOk
    /\ layout.format \notin {"none", "oblivion"}
    /\ ~layout.cut /\ ~layout.crafted /\ layout.p.damage = "none"
    /\ \E nm \in EntryNames : Len(nm) > MaxPluginName

\* C11: every plugin name in the summary of a successful parse is at most
\* 256 bytes long, and a plugin or light plugin entry whose name is longer
\* than 256 bytes makes the parse fail with DataInvalid and no summary.
C11_PluginNamesBounded ==
    /\ Succeeded => \A i \in 1..Len(st.m_Plugins) : Len(st.m_Plugins[i]) <= MaxPluginName
    /\ LongEntryRead =>
          /\ st.exc.type = "DataInvalid"
          /\ pc # "returned"
          /\ \A i \in 1..Len(delivered) : Len(delivered[i]) = 1


--------------------------------------------------------------------------
(* Errors of open                                                          *)

\* the errors that have reached the caller, thrown or passed to the callback
ErrorsSeen ==
    {raised[i] : i \in 1..Len(raised)}
        \cup {delivered[i][1] : i \in {j \in 1..Len(delivered) : Len(delivered[j]) = 1}}

\* C12: when the file cannot be opened, the error thrown by the constructor
\* and the error passed to the completion callback carry the syscall name
\* "open", the file name and the OS error code.
C12_OpenErrorCarriesSyscallPathErrno ==
    ~openOk =>
        \A e \in ErrorsSeen :
            /\ {"syscall", "path", "errno"} \subseteq DOMAIN e
            /\ e.syscall = "open"
            /\ e.path = fileName
            /\ e.errno = ENOENT

--------------------------------------------------------------------------
(* The encoding chosen from the file name                                  *)

\* the code points of the file name after the last separator, without the
\* last four of them and without the characters that are dropped
Remainder ==
    LET cps == Utf8Decode(SubSeq(fileName, NameOffset(fileName) + 1, Len(fileName)), 1)
    IN  SelectSeq(SubSeq(cps, 1, Len(cps) - 4), relevant)

EncodingChosen == pc \notin {"idle", "encoding"}

\* C13: determineEncoding gives CYRILLIC exactly when the remainder is not
\* empty and more than half of its code points lie in U+0400..U+052F
\* (2 * cyrillic > total), and UTF8ORLATIN1 in every other case.
C13_MajorityCyrillic ==
    EncodingChosen =>
        st.encoding = IF MostlyCyrillicExact(Remainder) THEN "CYRILLIC"
                      ELSE "UTF8ORLATIN1"

--------------------------------------------------------------------------
(* Truncated input                                                         *)

\* read() has ended in the failure of read<T> or read(void*, size_t)
ReadTruncated == Failed /\ st.exc.what = "unexpected end of file (read)"

\* an Oblivion save cut inside its fixed-size header fields: the skips up
\* to the save number pass the end of the file unnoticed, the read of the
\* four bytes of the save number is the first to fail
CutBeforeSaveNumber ==
    /\ layout.format = "oblivion" /\ layout.cut /\ openOk
    /\ Len(file) \in Len(TES4SAVEGAME)..(Len(TES4SAVEGAME) + 29)

\* C14: a framed read that fails for want of bytes clears the stream state,
\* seeks to the end and raises a truncation error whose offset is the length
\* of the active source and whose N is the number of bytes asked for, more
\* than were left; afterwards tell() reports that length.
C14_TruncationReport ==
    /\ ReadTruncated =>
          /\ st.exc.type = "runtime_error"
          /\ st.exc.offset = Len(st.src)
          /\ ~st.fail
          /\ DecoderTell(st) = Len(st.src)
          /\ Len(st.val) < st.exc.n
    /\ (ReadOver /\ CutBeforeSaveNumber) =>
          /\ ReadTruncated
          /\ st.exc.n = 4
          /\ st.exc.offset = Len(file)

C14_Witness ==
    /\ ReadTruncated /\ CutBeforeSaveNumber /\ Len(file) = 40
    /\ st.exc.n = 4 /\ st.exc.offset = 40 /\ DecoderTell(st) = 40

--------------------------------------------------------------------------
(* Files of no known format                                                *)

\* the file can be opened and begins with none of the four magics
NoMagic ==
    /\ openOk
    /\ \A i \in 1..NumHeaders :
          \/ Len(file) < Len(Headers[i].first)
          \/ SubSeq(file, 1, Len(Headers[i].first)) # Headers[i].first

\* C15: a file that can be opened and begins with none of the four magics
\* ends the parse with "invalid file header": no format parser is invoked,
\* there is no summary, and the creation-time fallback is not run.
C15_InvalidFileHeader ==
    NoMagic =>
        /\ st.calls = <<>>
        /\ st.statCalls = 0
        /\ pc \notin {"read", "returned"}
        /\ ReadOver => st.exc.type = "runtime_error" /\ st.exc.what = "invalid file header"
        /\ \A i \in 1..Len(delivered) : delivered[i] = <<JsError("invalid file header")>>
        /\ \A i \in 1..Len(raised) : raised[i] = JsError("invalid file header")

C15_Witness ==
    /\ NoMagic /\ Len(file) > Len(TESV_SAVEGAME)
    /\ pc = "done" /\ st.exc.what = "invalid file header"
    /\ delivered = <<<<JsError("invalid file header")>>>>

--------------------------------------------------------------------------
(* Strings                                                                 *)

\* the parser that runs is about to execute a statement of this kind
About(op) ==
    /\ pc = "step" /\ ~AtEnd
    /\ Running[st.at].op = op
    /\ Holds(st, Running[st.at].when)

\* the statement before the one the parser is at
Done(op) ==
    /\ pc = "step" /\ st.at > 1 /\ st.at - 1 <= Len(Running)
    /\ Running[st.at - 1].op = op
    /\ Holds(st, Running[st.at - 1].when)

\* n more bytes are left in the active source
Avail(n) == st.pos + n <= Len(st.src)

LengthWidth == IF st.bz THEN 1 ELSE 2
MarkerWidth == IF st.hfm THEN 1 ELSE 0

\* the length prefix at the get position
Prefix == Val(SubSeq(st.src, st.pos + 1, st.pos + LengthWidth))

\* the payload of L bytes from offset off on, as the result keeps it
Buffer(off, L) ==
    IF st.bz THEN SubSeq(st.src, off + 1, off + L - 1)
    ELSE SubSeq(st.src, off + 1, off + L)

\* C16 as stated: read<string> consumes exactly the length L (u8 with
\* bz_string, u16 otherwise), then, when L > 0, L payload bytes and, only
\* with has_field_markers, one byte that must be '|' (DataInvalid
\* otherwise); when L = 0 neither payload nor marker.  The result is the
\* payload, without its final byte when bz_string is set.
C16_StringReadAsStated ==
    [][(About("string") /\ Avail(LengthWidth)) =>
        LET off == st.pos + LengthWidth
        IN  IF Prefix = 0 THEN ~Thrown(st') /\ st'.pos = off
            ELSE Avail(LengthWidth + Prefix + MarkerWidth) =>
                 IF st.hfm /\ st.src[off + Prefix + 1] # FieldMarker
                 THEN st'.exc.type = "DataInvalid"
                 ELSE /\ ~Thrown(st')
                      /\ st'.pos = off + Prefix + MarkerWidth
                      /\ st'.val = Buffer(off, Prefix)]_vars

\* C16, amended: the length L is read as a primitive (u8 with bz_string,
\* u16 otherwise), so with has_field_markers it is followed by a '|' of its
\* own, also when L = 0 (DataInvalid otherwise); then, when L > 0, L payload
\* bytes and, only with has_field_markers, one byte that must be '|'
\* (DataInvalid with the offset after that byte otherwise); when L = 0
\* neither payload nor a second marker is consumed.  The result is the
\* payload, without its final byte when bz_string is set, and without its
\* trailing NUL bytes.
C16_StringRead ==
    [][(About("string") /\ Avail(LengthWidth + MarkerWidth)) =>
        LET off == st.pos + LengthWidth + MarkerWidth
        IN  IF st.hfm /\ st.src[off] # FieldMarker
            THEN st'.exc.type = "DataInvalid" /\ st'.exc.offset = off
            ELSE IF Prefix = 0
            THEN ~Thrown(st') /\ st'.pos = off /\ st'.val = <<>>
            ELSE Avail(LengthWidth + MarkerWidth + Prefix + MarkerWidth) =>
                 IF st.hfm /\ st.src[off + Prefix + 1] # FieldMarker
                 THEN /\ st'.exc.type = "DataInvalid"
                      /\ st'.exc.offset = off + Prefix + 1
                 ELSE /\ ~Thrown(st')
                      /\ st'.pos = off + Prefix + MarkerWidth
                      /\ st'.val = DropTrailingNul(Buffer(off, Prefix))]_vars

\* a Fallout 3 save whose character name ends in NUL, its name just read,
\* and one whose empty name has been read
C16_Witness ==
    /\ Done("string") /\ st.hfm /\ ~st.bz
    /\ Running[st.at - 1].to = "m_PCName"
    /\ layout.p.name = Hero \o <<0>>
    /\ st.val = Hero

--------------------------------------------------------------------------
(* The field of New Vegas                                                  *)

\* the offsets, counted from 1, of the '|' bytes from the get position on
MarkersAhead == {k \in (st.pos + 1)..Len(st.src) : st.src[k] = FieldMarker}
FirstMarker  == CHOOSE k \in MarkersAhead : \A j \in MarkersAhead : k <= j

\* the statements of readFO3 after file.setHasFieldMarkers(true)
AfterScan ==
    /\ pc = "step" /\ ~AtEnd
    /\ Headers[idx].second = "readFO3"
    /\ st.at > 5

\* C17: in readFO3, after the skips of header size, version and delimiter,
\* bytes are read one at a time up to the first 0x7C; when five bytes were
\* read, that 0x7C included, the get position is put back to where the scan
\* began, otherwise it stays after that 0x7C; has_field_markers is false
\* during the scan and true for every read after it.
C17_NewVegasField ==
    [][/\ (About("skipNVField") /\ MarkersAhead # {}) =>
            /\ st.at = 4 /\ st.pos = Len(FO3SAVEGAME) + 9
            /\ ~st.hfm /\ ~st'.hfm
            /\ ~Thrown(st')
            /\ st'.pos = IF FirstMarker - st.pos = FO3FieldSize THEN st.pos
                         ELSE FirstMarker
       /\ AfterScan => st.hfm]_vars

\* a Fallout 3 save after the scan, back at the first byte of the width,
\* and then at its next read
C17_Witness ==
    /\ Done("skipNVField") /\ layout.format = "fo3" /\ ~layout.crafted
    /\ layout.p.w = BaseParams.w
    /\ st.pos = Len(FO3SAVEGAME) + 9 /\ ~st.hfm
    /\ st.val = <<FieldMarker>>

--------------------------------------------------------------------------
(* The compressed region of Skyrim SE                                      *)

\* file.setCompression(compressionFormat, compressed, uncompressed) is about
\* to install a decoder, and the bytes it asks for are there
Installing ==
    /\ About("setCompression")
    /\ Val(st.compressionFormat) \in {1, 2}
    /\ Allocatable(st.compressed) /\ Allocatable(st.uncompressed)
    /\ Avail(Val(st.compressed))

\* the save is as it was written
Undamaged == ~layout.cut /\ ~layout.crafted /\ layout.p.damage = "none"

\* C18: after set_compression with format 1 or 2, exactly compressed_len
\* bytes have been consumed from the previous source, the previous source
\* is used by no later read, and the following reads return the bytes of
\* the decompressed region from its offset 0 on and in order, with tell()
\* inside the decompressed region.
C18_DecompressedRegion ==
    [][/\ Installing =>
            /\ ~Thrown(st') /\ st'.mem
            /\ st'.decoders = <<[format   |-> Val(st.compressionFormat),
                                 readOk   |-> TRUE,
                                 inflated |-> st'.decoders[1].inflated,
                                 outerEnd |-> st.pos + Val(st.compressed),
                                 outerLen |-> Len(file)]>>
            /\ Len(st'.src) = Val(st.uncompressed)
            /\ Undamaged => st'.src = SkyrimBody(layout.p)
            /\ st'.pos = 0 /\ DecoderTell(st') = 0
       /\ st.decoders # <<>> =>
            /\ st'.src = st.src /\ st'.mem /\ st'.decoders = st.decoders
            /\ st'.pos \in 0..Len(st.src)
            /\ pc = "step" => st'.pos >= st.pos
            /\ ~st'.fail => DecoderTell(st') \in 0..Len(st.src)
       /\ (st.decoders # <<>> /\ About("read") /\ Avail(Running[st.at].n)) =>
            /\ st'.val = SubSeq(st.src, st.pos + 1, st.pos + Running[st.at].n)
            /\ st'.pos = st.pos + Running[st.at].n]_vars

\* a Skyrim SE save with an LZ4 region, the decoder installed and the form
\* version read from the decompressed bytes
C18_Witness ==
    /\ Done("read") /\ Running[st.at - 1].to = "formVersion"
    /\ layout.format = "skyrimse" /\ layout.p.comp = 2 /\ Undamaged
    /\ Len(st.decoders) = 1 /\ st.decoders[1].outerEnd = Len(file)
    /\ st.src = SkyrimBody(layout.p)
    /\ st.pos = 1 /\ st.val = <<layout.p.form>>

--------------------------------------------------------------------------
(* Compression formats                                                     *)

\* C19: set_compression installs the zlib adapter when format = 1 and the
\* LZ4 adapter when format = 2; for every other format it leaves the active
\* source, its get position and the reader's flags as they are and raises
\* no error, so that the next read goes on in the original source.
C19_CompressionFormats ==
    [][/\ About("setCompression") =>
            IF Val(st.compressionFormat) \in {1, 2}
            THEN (/\ Allocatable(st.compressed) /\ Allocatable(st.uncompressed)
                  /\ env.inflateInitOk) =>
                    /\ ~Thrown(st')
                    /\ Len(st'.decoders) = 1 /\ st'.mem
                    /\ st'.decoders[1].format = Val(st.compressionFormat)
                    /\ st'.bz = st.bz /\ st'.hfm = st.hfm
            ELSE st' = [st EXCEPT !.at = st.at + 1]
       /\ (pc = "step" /\ st.decoders = <<>>) => (st.src = file /\ ~st.mem)
       /\ (About("read") /\ st.decoders = <<>> /\ ~st.hfm /\ Avail(Running[st.at].n)) =>
            /\ st'.val = SubSeq(file, st.pos + 1, st.pos + Running[st.at].n)
            /\ st'.pos = st.pos + Running[st.at].n]_vars

\* a Skyrim SE save of compression format 3: no decoder is installed and
\* the form version is read from the file itself
C19_Witness ==
    /\ Done("read") /\ Running[st.at - 1].to = "formVersion"
    /\ layout.format = "skyrimse" /\ layout.p.comp = 3 /\ Undamaged
    /\ st.decoders = <<>> /\ st.src = file /\ ~st.mem
    /\ st.pos = Len(file) - Len(SkyrimBody(layout.p)) + 1
    /\ st.val = <<layout.p.form>>

--------------------------------------------------------------------------
(* Primitive reads                                                         *)

\* sizeof(T) of the integer and floating point types
Sizes == {1, 2, 4, 8}

\* what read<T> makes of the reader s, t being the reader after it and
\* n = sizeof(T), when the bytes it asks for are there
ReadLaw(s, t, n) ==
    IF s.hfm /\ s.src[s.pos + n + 1] # FieldMarker
    THEN /\ t.exc.type = "DataInvalid"
         /\ t.exc.what = "Expected field separator"
         /\ t.exc.offset = s.pos + n + 1
         /\ t.pos = s.pos + n + 1
    ELSE /\ ~Thrown(t)
         /\ t.val = SubSeq(s.src, s.pos + 1, s.pos + n)
         /\ t.pos = s.pos + n + (IF s.hfm THEN 1 ELSE 0)

\* C20: with has_field_markers set, every primitive read<T> consumes
\* sizeof(T) bytes and then exactly one more byte, and the parse fails with
\* DataInvalid carrying the current offset whenever that byte is not '|';
\* with has_field_markers clear it consumes exactly sizeof(T) bytes.
C20_PrimitiveRead ==
    [][/\ (About("read") /\ Avail(Running[st.at].n + MarkerWidth)) =>
            /\ ReadLaw(st, st', Running[st.at].n)
            /\ Thrown(st') => pc' = "caught"
       /\ pc = "step" =>
            \A n \in Sizes :
                Avail(n + MarkerWidth) => ReadLaw(st, read(st, n), n)]_vars

\* a Fallout 3 save whose height is followed by a byte that is not '|':
\* the width has been read, the read of the height has failed
C20_Witness ==
    /\ pc = "caught" /\ layout.format = "fo3" /\ layout.crafted
    /\ st.at = 8 /\ st.hfm
    /\ st.width = LE(layout.p.w, 4)
    /\ st.exc.type = "DataInvalid"
    /\ st.exc.offset = Len(FO3SAVEGAME) + 19
    /\ st.pos = Len(FO3SAVEGAME) + 19
    /\ file[Len(FO3SAVEGAME) + 19] # FieldMarker

--------------------------------------------------------------------------
(* Light plugins                                                           *)

\* the form version of the save announces light plugins
AnnouncesLight ==
    \/ (layout.format \in {"skyrim", "skyrimse"} /\ layout.p.form >= SkyrimLightVersion)
    \/ (layout.format = "fo4" /\ layout.p.form >= FO4LightVersion)

\* no plugin name of the save is longer than 256 bytes or ends in NUL
PlainNames ==
    \A nm \in {layout.p.plugins[i] : i \in 1..Len(layout.p.plugins)}
              \cup {layout.p.light[i] : i \in 1..Len(layout.p.light)} :
        Len(nm) <= MaxPluginName /\ DropTrailingNul(nm) = nm

\* a full read of a whole save of usable dimensions, in the usual world
FullRead ==
    /\ ReadOver /\ ~quick /\ openOk
    /\ layout.format # "none" /\ Undamaged
    /\ layout.p.w < MaxDimension /\ layout.p.h < MaxDimension
    /\ (layout.p.comp = 1 => env.inflateInitOk)
    /\ PlainNames

\* C21: in a non-quick parse light plugins are read exactly when the form
\* version is at least 0x4E (Skyrim) or 0x44 (Fallout 4) and never for
\* Oblivion or Fallout 3; the plugin list of the summary is the regular
\* names in file order followed by the light names in file order,
\* duplicates kept.
C21_LightPlugins ==
    FullRead =>
        /\ ~Thrown(st)
        /\ st.m_Plugins = layout.p.plugins \o
                             (IF AnnouncesLight THEN layout.p.light ELSE <<>>)

\* a Fallout 4 save of form version 0x44 with two equal light plugins
C21_Witness ==
    /\ FullRead /\ layout.format = "fo4" /\ layout.p.form = FO4LightVersion
    /\ layout.p.light = <<LightName(1), LightName(1)>>
    /\ st.m_Plugins = <<PluginName(1), LightName(1), LightName(1)>>

--------------------------------------------------------------------------
(* Screenshots                                                             *)

\* the parser is about to read an image: readImage(alpha), which reads the
\* dimensions first, or readImage(width, height, alpha)
AboutImage == About("readImage()") \/ About("readImage(w, h)")

\* the bytes readImage(alpha) consumes before the pixels
DimBytes == IF Running[st.at].op = "readImage()" THEN 8 ELSE 0

ImageWidth ==
    IF Running[st.at].op = "readImage()"
    THEN SubSeq(st.src, st.pos + 1, st.pos + 4) ELSE st.width
ImageHeight ==
    IF Running[st.at].op = "readImage()"
    THEN SubSeq(st.src, st.pos + 5, st.pos + 8) ELSE st.height

\* what readImage makes of `bytes` bytes from offset off on: t is the
\* reader after it
ImageLaw(t, off, w, h, alpha) ==
    LET bpp == IF alpha THEN 4 ELSE 3
        in  == SubSeq(st.src, off + 1, off + w * h * bpp)
    IN  /\ ~Thrown(t)
        /\ t.pos = off + w * h * bpp
        /\ t.m_ScreenshotDim = <<w, h>>
        /\ Len(t.m_Screenshot) = 4 * w * h
        /\ IF alpha THEN t.m_Screenshot = in
           ELSE \A i \in 0..(w * h - 1) :
                   /\ \A c \in 1..3 : t.m_Screenshot[4 * i + c] = in[3 * i + c]
                   /\ t.m_Screenshot[4 * i + 4] = 255

\* C22: for every width < 2000 and height < 2000, read_image with
\* alpha = false consumes 3 * width * height bytes and stores
\* 4 * width * height bytes, the three bytes of every pixel followed by
\* 0xFF; with alpha = true it consumes 4 * width * height bytes and stores
\* them unchanged.
C22_ImageBytes ==
    [][(/\ AboutImage /\ Avail(DimBytes)
        /\ ULess(ImageWidth, MaxDimension) /\ ULess(ImageHeight, MaxDimension)
        /\ Avail(DimBytes + Val(ImageWidth) * Val(ImageHeight)
                            * (IF Running[st.at].as = "alpha" THEN 4 ELSE 3))) =>
            ImageLaw(st', st.pos + DimBytes, Val(ImageWidth), Val(ImageHeight),
                     Running[st.at].as = "alpha")]_vars

\* a Fallout 3 save of MaxSide x MaxSide pixels without alpha, its image
\* read
C22_Witness ==
    /\ Done("readImage(w, h)") /\ layout.format = "fo3" /\ Undamaged
    /\ layout.p.w = MaxSide /\ layout.p.h = MaxSide
    /\ Len(st.m_Screenshot) = 4 * MaxSide * MaxSide
    /\ st.m_Screenshot[4] = 255 /\ st.m_Screenshot[1] = Pixels(1)[1]
    /\ st.pos = layout.checkPos + 3 * MaxSide * MaxSide

--------------------------------------------------------------------------
(* The modification time of the file                                       *)

\* C23: the fallback to the modification time runs only after a format
\* parser has returned successfully and only when creation_time is 0 at
\* that point: if stat succeeds creation_time becomes st_mtime truncated to
\* 32 bits, if stat fails it stays 0 and the parse still succeeds; a
\* creation_time that is not 0 is left as it is.
C23_ModifiedTimeFallback ==
    [][/\ (pc = "finish" /\ found) =>
            /\ ~Thrown(st')
            /\ pc' = "read"
            /\ IF IsZero(st.m_CreationTime)
               THEN /\ st'.statCalls = st.statCalls + 1
                    /\ st'.m_CreationTime =
                          IF statRes.res = 0 THEN SubSeq(statRes.st_mtime, 1, 4)
                          ELSE st.m_CreationTime
               ELSE st' = st
       /\ st'.statCalls # st.statCalls =>
            /\ pc = "finish" /\ found
            /\ st.calls # <<>> /\ ~Thrown(st)
            /\ IsZero(st.m_CreationTime)]_vars

\* a Fallout 3 save read while stat fails: the read has succeeded and the
\* creation time is 0
C23_Witness ==
    /\ pc = "read" /\ layout.format = "fo3" /\ Undamaged
    /\ statRes.res # 0 /\ st.statCalls = 1
    /\ IsZero(st.m_CreationTime) /\ ~Thrown(st)

--------------------------------------------------------------------------
(* The character level                                                     *)

\* a whole save has gone through one parser, up to the level at least
LevelRead ==
    /\ ReadOver /\ ~Thrown(st) /\ Len(st.calls) = 1
    /\ layout.format # "none" /\ Undamaged

\* C24: character_level is at most 65535 and comes by truncation: the u32
\* level field modulo 65536 for Skyrim and Fallout 4, the i32 level field
\* modulo 65536 for Fallout 3 and New Vegas, the u16 field itself for
\* Oblivion.
C24_LevelTruncated ==
    /\ st.m_PCLevel \in 0..65535
    /\ LevelRead => st.m_PCLevel = layout.p.level % 65536

\* a Fallout 3 save whose level field is -65531: the level is 5
C24_Witness ==
    /\ LevelRead /\ layout.format = "fo3"
    /\ layout.p.level = -65531
    /\ st.m_PCLevel = 5

--------------------------------------------------------------------------
(* Oblivion's play time                                                    *)

\* trunc(x * 24) mod 24 for x = f.m * 2^f.e, the product taken exactly
ExactHours(f) ==
    IF f.e + 3 >= 0 THEN ((3 * f.m % 24) * (Pow2(f.e + 3) % 24)) % 24
    ELSE IF f.e + 3 <= -31 THEN 0
    ELSE ((3 * f.m) \div Pow2(-(f.e + 3))) % 24

\* "D days, H hours"
DaysAndHours(D, H) ==
    to_string(D) \o <<32, 100, 97, 121, 115, 44, 32>>
        \o to_string(H) \o <<32, 104, 111, 117, 114, 115>>

\* a whole Oblivion save with non-negative game days has been read
OblivionRead ==
    /\ ReadOver /\ ~Thrown(st) /\ Len(st.calls) = 1
    /\ layout.format = "oblivion" /\ Undamaged
    /\ layout.p.days[4] < 128

\* C25: for every non-negative game_days, readOblivion sets play_time to
\* "D days, H hours" with D = floor(game_days) and
\* H = trunc(game_days * 24) mod 24, so that 0 <= H <= 23; 3.5 gives
\* "3 days, 12 hours", 0.0 "0 days, 0 hours", 48.99 "48 days, 23 hours".
\* (For a D that no int holds the outcome has at least to be defined.)
C25_PlayTimeOfGameDays ==
    OblivionRead =>
        LET f == Float(layout.p.days)
        IN  IF f.finite /\ f.e < 7
            THEN st.m_Playtime = DaysAndHours(TruncScaled(f.m, f.e), ExactHours(f))
            ELSE IntRange(f)

--------------------------------------------------------------------------
(* Termination                                                             *)

\* the scan of readFO3 ends at a '|' or in the read that finds the end
ScanEnds ==
    About("skipNVField") =>
        IF MarkersAhead # {}
        THEN ~Thrown(st') /\ st'.val = <<FieldMarker>>
        ELSE /\ st'.exc.what = "unexpected end of file (read)"
             /\ st'.exc.offset = Len(st.src) /\ st'.exc.n = 1

\* the loop over the plugins runs as often as its count byte says, at most
LoopsBounded ==
    /\ About("readPlugins") =>
          /\ Avail(MarkerWidth + 1) =>
                Len(st'.m_Plugins) <= Len(st.m_Plugins) + st.src[st.pos + 1]
          /\ Len(st'.m_Plugins) <= Len(st.m_Plugins) + MaxCount
    /\ About("readLightPlugins") =>
          /\ Avail(2) =>
                Len(st'.m_Plugins) <=
                    Len(st.m_Plugins) + Val(SubSeq(st.src, st.pos + 1, st.pos + 2))
          /\ Len(st'.m_Plugins) <= Len(st.m_Plugins) + 65535

\* read() is running
Busy == pc \in {"encoding", "open", "probe", "step", "finish"}

\* the longest of the four parsers, in statements
Longest ==
    LET ls == {Len(Statements(Headers[i].second)) : i \in 1..NumHeaders}
    IN  CHOOSE n \in ls : \A m \in ls : m <= n

\* a measure of what read() has still to do: the headers not yet tested
\* and, inside a parser, the statements not yet executed
Rank ==
    LET W == Longest + 4
    IN  CASE pc = "encoding" -> (NumHeaders + 1) * W + 1
          [] pc = "open"     -> (NumHeaders + 1) * W
          [] pc = "probe"    -> (NumHeaders - idx + 1) * W
          [] pc = "step"     -> (NumHeaders - idx) * W + (Longest + 3 - st.at)
          [] pc = "finish"   -> 1
          [] OTHER           -> 0

\* every step of read() brings its end nearer
Progress == Busy => (Rank' < Rank /\ Rank' >= 0)

\* C26 as stated: every parse of a finite file ends, with a summary or
\* with an error; the scan of readFO3 ends at a 0x7C or in a truncation
\* error, the plugin loop runs at most 255 times, the light plugin loop at
\* most 65535 times, and the dispatcher loop runs exactly four probes.
C26_TerminatesAfterFourProbes ==
    [][/\ Progress /\ ScanEnds /\ LoopsBounded
       /\ (Busy /\ ~Busy') => st'.probes = NumHeaders]_vars

\* C26, amended: the same, the dispatcher loop running at most four
\* probes: four when no format parser fails, and none after a parser that
\* fails.
C26_Terminates ==
    [][/\ Progress /\ ScanEnds /\ LoopsBounded
       /\ st'.probes <= NumHeaders
       /\ (Busy /\ ~Busy') =>
             /\ pc' \in {"read", "caught"}
             /\ \/ st'.probes = NumHeaders
                \/ Thrown(st') /\ st'.calls # <<>> /\ st'.probes = idx]_vars

\* a Fallout 4 save of 255 plugins, read to its end
C26_Witness ==
    /\ pc = "read" /\ layout.format = "fo4"
    /\ Len(st.m_Plugins) = MaxCount /\ st.probes = NumHeaders
    /\ st.pos = Len(file)

--------------------------------------------------------------------------
(* The width of a Fallout 3 save                                           *)

\* a Fallout 3 save as the game writes it, with a width readImage accepts
PlainFO3 ==
    /\ layout.format = "fo3" /\ Undamaged /\ layout.p.extra = <<>>
    /\ layout.p.w \in 0..(MaxDimension - 1)

\* C27: for every Fallout 3 layout (no field of New Vegas) whose four bytes
\* of width at the offset of the scan are followed by '|', and for every
\* width in 0..1999, readFO3 moves the reader back and the width it reads
\* then is that field, whatever the bytes of the width are.
C27_RewindForEveryWidth ==
    [][PlainFO3 =>
          /\ About("skipNVField") =>
                /\ st.src[st.pos + FO3FieldSize] = FieldMarker
                /\ ~Thrown(st') /\ st'.pos = st.pos
          /\ (About("read") /\ Running[st.at].to = "width") =>
                /\ ~Thrown(st')
                /\ st'.width = LE(layout.p.w, 4)]_vars

--------------------------------------------------------------------------
(* The test of a header                                                    *)

\* the source begins with the bytes of `magic`
BeginsWith(magic) ==
    /\ Len(st.src) >= Len(magic)
    /\ SubSeq(st.src, 1, Len(magic)) = magic

\* C28: header(magic) depends only on the first len(magic) bytes of the
\* source: it is true exactly when the source holds at least len(magic)
\* bytes and they equal magic, also after a longer probe has read past the
\* end of the source (a file of the 11 bytes FO3SAVEGAME goes to readFO3).
C28_HeaderOfFirstBytes ==
    [][pc = "probe" =>
          /\ header(st, Headers[idx].first).match <=> BeginsWith(Headers[idx].first)
          /\ BeginsWith(Headers[idx].first) =>
                /\ pc' = "step"
                /\ st'.calls = <<Headers[idx].second>>]_vars

--------------------------------------------------------------------------
(* The end of the thread-safe function                                     *)

\* C29: in readAsync, after the completion callback has been delivered, the
\* thread count of the thread-safe function (made with count 1, then one
\* Acquire and one Release by the load thread) reaches zero in the end, so
\* that its finaliser runs and the function keeps the host alive no longer.
C29_ThreadCountReachesZero ==
    (mode = "async" /\ delivered # <<>>) ~> (tsfn.threads = 0)

\* C30: whenever the finaliser of the thread-safe function of readAsync
\* runs, the pointer it joins and deletes is the load thread this call of
\* readAsync made: the loadThread the finaliser has captured equals the
\* pointer `new std::thread` gave later, and the join comes only after the
\* Release of the load thread.
C30_FinaliserJoinsLoadThread ==
    /\ tsfn.created => tsfn.captured = tsfn.loadThread
    /\ tsfn.joined # "none" =>
          /\ tsfn.joined = "loadThread"
          /\ pc = "done"

==========================================================================
